---- MODULE Spec2Model ----
(***************************************************************************)
(* The schema diff generator of sqldef (schema/generator.go) as a state    *)
(* machine.  The DDL value types it works on are those declared next to    *)
(* the tests in cmd/mssqldef/mssqldef_test.go.                              *)
(*                                                                          *)
(* Representation.  A Go string that the code only compares, concatenates   *)
(* or prints is a TLA+ string.  A Go string or []byte that the code looks   *)
(* into (splits at ".", lower-cases, slices, sorts, replaces a prefix of)   *)
(* is a sequence of one-character strings, and Str turns it into the text   *)
(* that Sprintf prints.  A nil pointer is Nil; *bool is "nil", "true" or    *)
(* "false".  A slice is a sequence with value semantics (cap = len).        *)
(* The parser (parseDDLs) is not part of the model: the inputs are parsed   *)
(* DDL values.                                                              *)
(***************************************************************************)
EXTENDS Integers, Sequences, FiniteSets, TLC

VARIABLES mode, currentDDLs, desiredDDLs, desiredTables, currentTables, desiredViews, currentViews, ddls, err, pc, walkTables, scn

vars == <<mode, currentDDLs, desiredDDLs, desiredTables, currentTables, desiredViews, currentViews, ddls, err, pc, walkTables, scn>>

\* ------------------------------------------------------------------ bounds

\* The longest desired DDL list the walk consumes.
MaxDesired == 2

\* The longest current DDL list folded into the initial schema.
MaxCurrent == 2

\* ------------------------------------------------------- constants of the code

GeneratorModeMysql == "mysql"
GeneratorModePostgres == "postgres"
GeneratorModeSQLite3 == "sqlite3"
GeneratorModeMssql == "mssql"

Modes == {GeneratorModeMysql, GeneratorModePostgres, GeneratorModeSQLite3, GeneratorModeMssql}

ValueTypeStr == "Str"
ValueTypeInt == "Int"
ValueTypeFloat == "Float"
ValueTypeHexNum == "HexNum"
ValueTypeHex == "Hex"
ValueTypeValArg == "ValArg"
ValueTypeBit == "Bit"
ValueTypeBool == "Bool"

ColumnKeyNone == "None"
ColumnKeyPrimary == "Primary"
ColumnKeySpatialKey == "SpatialKey"
ColumnKeyUnique == "Unique"
ColumnKeyUniqueKey == "UniqueKey"
ColumnKey == "Key"

Nil == [nil |-> TRUE]

NoError == ""

\* ------------------------------------------------------------ text helpers

RECURSIVE Str(_)
Str(bytes) == IF bytes = <<>> THEN "" ELSE Head(bytes) \o Str(Tail(bytes))

RECURSIVE Join(_, _)
Join(strs, sep) == IF strs = <<>> THEN "" ELSE IF Len(strs) = 1 THEN strs[1] ELSE strs[1] \o sep \o Join(Tail(strs), sep)

RECURSIVE Concat(_)
Concat(seqs) == IF seqs = <<>> THEN <<>> ELSE Head(seqs) \o Concat(Tail(seqs))

Digit(d) == <<"0", "1", "2", "3", "4", "5", "6", "7", "8", "9">>[d + 1]

RECURSIVE FormatInt(_)
FormatInt(n) == IF n < 0 THEN "-" \o FormatInt(0 - n) ELSE IF n < 10 THEN Digit(n) ELSE FormatInt(n \div 10) \o Digit(n % 10)

\* Sprintf("%f", v) for a float64 held as a whole number of millionths.
FormatFloat(micros) == FormatInt(micros \div 1000000) \o "." \o Digit((micros \div 100000) % 10) \o Digit((micros \div 10000) % 10) \o Digit((micros \div 1000) % 10) \o Digit((micros \div 100) % 10) \o Digit((micros \div 10) % 10) \o Digit(micros % 10)

UpperLetters == <<"A", "B", "C", "D", "E", "F", "G", "H", "I", "J", "K", "L", "M", "N", "O", "P", "Q", "R", "S", "T", "U", "V", "W", "X", "Y", "Z">>

LowerLetters == <<"a", "b", "c", "d", "e", "f", "g", "h", "i", "j", "k", "l", "m", "n", "o", "p", "q", "r", "s", "t", "u", "v", "w", "x", "y", "z">>

ToLowerChar(c) == IF \E i \in 1..Len(UpperLetters) : UpperLetters[i] = c THEN LowerLetters[CHOOSE i \in 1..Len(UpperLetters) : UpperLetters[i] = c] ELSE c

\* strings.ToLower on an ASCII text.
ToLower(s) == [i \in 1..Len(s) |-> ToLowerChar(s[i])]

HasPrefixAt(s, sub, i) == i + Len(sub) - 1 <= Len(s) /\ SubSeq(s, i, i + Len(sub) - 1) = sub

\* strings.Index: the first position (from 1) where sub starts in s, 0 if none.
IndexOf(s, sub) == IF \E i \in 1..Len(s) : HasPrefixAt(s, sub, i) THEN CHOOSE i \in 1..Len(s) : HasPrefixAt(s, sub, i) /\ \A j \in 1..(i - 1) : ~HasPrefixAt(s, sub, j) ELSE 0

\* strings.SplitN(s, sep, 2)
SplitN2(s, sep) == IF IndexOf(s, sep) = 0 THEN <<s>> ELSE <<SubSeq(s, 1, IndexOf(s, sep) - 1), SubSeq(s, IndexOf(s, sep) + Len(sep), Len(s))>>

\* strings.Replace(s, old, "", 1)
RemoveFirst(s, old) == IF IndexOf(s, old) = 0 THEN s ELSE SubSeq(s, 1, IndexOf(s, old) - 1) \o SubSeq(s, IndexOf(s, old) + Len(old), Len(s))

\* ------------------------------------------------------------- zero values

ZeroColumn == [name |-> "", position |-> 0, typeName |-> "", unsigned |-> FALSE, notNull |-> "nil", autoIncrement |-> FALSE, array |-> FALSE, defaultDef |-> Nil, length |-> Nil, scale |-> Nil, check |-> Nil, checkNoInherit |-> FALSE, charset |-> "", collate |-> "", timezone |-> FALSE, keyOption |-> ColumnKeyNone, onUpdate |-> Nil, enumValues |-> <<>>, references |-> <<>>, identity |-> "", sequence |-> Nil]

ZeroIndex == [name |-> "", indexType |-> "", columns |-> <<>>, primary |-> FALSE, unique |-> FALSE, where |-> "", clustered |-> FALSE, options |-> <<>>]

ZeroForeignKey == [constraintName |-> "", indexName |-> "", indexColumns |-> <<>>, referenceName |-> <<>>, referenceColumns |-> <<>>, onDelete |-> "", onUpdate |-> ""]

ZeroPolicy == [name |-> "", referenceName |-> "", permissive |-> <<>>, scope |-> <<>>, roles |-> <<>>, using |-> <<>>, withCheck |-> <<>>]

ZeroTable == [name |-> <<>>, columns |-> <<>>, indexes |-> <<>>, foreignKeys |-> <<>>, policies |-> <<>>]

ZeroValue == [valueType |-> ValueTypeStr, raw |-> <<>>, strVal |-> "", intVal |-> 0, floatVal |-> 0, bitVal |-> FALSE]

ZeroSequence == [Name |-> "", IfNotExists |-> FALSE, Type |-> "", IncrementBy |-> Nil, MinValue |-> Nil, NoMinValue |-> FALSE, MaxValue |-> Nil, NoMaxValue |-> FALSE, StartWith |-> Nil, Cache |-> Nil, Cycle |-> FALSE, NoCycle |-> FALSE, OwnedBy |-> ""]

\* ---------------------------------------------------------------- lookups

containsString(strs, str) == \E i \in 1..Len(strs) : strs[i] = str

\* The first index (from 1) of an element with the name, 0 when there is none.
FirstIndex(seq, Has(_)) == IF \E i \in 1..Len(seq) : Has(seq[i]) THEN CHOOSE i \in 1..Len(seq) : Has(seq[i]) /\ \A j \in 1..(i - 1) : ~Has(seq[j]) ELSE 0

findTableIndex(tables, name) == LET Has(t) == t.name = name IN FirstIndex(tables, Has)

findTableByName(tables, name) == IF findTableIndex(tables, name) = 0 THEN Nil ELSE tables[findTableIndex(tables, name)]

findColumnByName(columns, name) == LET Has(c) == c.name = name IN IF FirstIndex(columns, Has) = 0 THEN Nil ELSE columns[FirstIndex(columns, Has)]

findIndexByName(indexes, name) == LET Has(x) == x.name = name IN IF FirstIndex(indexes, Has) = 0 THEN Nil ELSE indexes[FirstIndex(indexes, Has)]

findIndexOptionByName(options, name) == LET Has(o) == o.optionName = name IN IF FirstIndex(options, Has) = 0 THEN Nil ELSE options[FirstIndex(options, Has)]

findForeignKeyByName(foreignKeys, constraintName) == LET Has(f) == f.constraintName = constraintName IN IF FirstIndex(foreignKeys, Has) = 0 THEN Nil ELSE foreignKeys[FirstIndex(foreignKeys, Has)]

findPrimaryKey(indexes) == LET Has(x) == x.primary IN IF FirstIndex(indexes, Has) = 0 THEN Nil ELSE indexes[FirstIndex(indexes, Has)]

findPolicyByName(policies, name) == LET Has(p) == p.name = name IN IF FirstIndex(policies, Has) = 0 THEN Nil ELSE policies[FirstIndex(policies, Has)]

findViewByName(views, name) == LET Has(v) == v.name = name IN IF FirstIndex(views, Has) = 0 THEN Nil ELSE views[FirstIndex(views, Has)]

convertColumnsToColumnNames(columns) == [i \in 1..Len(columns) |-> columns[i].name]

convertIndexesToIndexNames(indexes) == [i \in 1..Len(indexes) |-> indexes[i].name]

convertForeignKeysToConstraintNames(foreignKeys) == [i \in 1..Len(foreignKeys) |-> foreignKeys[i].constraintName]

RECURSIVE convertForeignKeysToIndexNames(_)
convertForeignKeysToIndexNames(foreignKeys) == IF foreignKeys = <<>> THEN <<>> ELSE (IF Head(foreignKeys).indexName # "" THEN <<Head(foreignKeys).indexName>> ELSE IF Head(foreignKeys).constraintName # "" THEN <<Head(foreignKeys).constraintName>> ELSE <<>>) \o convertForeignKeysToIndexNames(Tail(foreignKeys))

convertPolicyNames(policies) == [i \in 1..Len(policies) |-> policies[i].name]

convertViewNames(views) == [i \in 1..Len(views) |-> views[i].name]

isUnique(keyOption) == keyOption = ColumnKeyUnique \/ keyOption = ColumnKeyUniqueKey

\* Table.PrimaryKey
PrimaryKeyColumns(table) == SelectSeq(table.columns, LAMBDA c : c.keyOption = ColumnKeyPrimary)

PrimaryKey(table) == IF findPrimaryKey(table.indexes) # Nil THEN findPrimaryKey(table.indexes) ELSE IF PrimaryKeyColumns(table) = <<>> THEN Nil ELSE [ZeroIndex EXCEPT !.name = "PRIMARY", !.indexType = "primary key", !.columns = [i \in 1..Len(PrimaryKeyColumns(table)) |-> [column |-> PrimaryKeyColumns(table)[i].name, length |-> Nil]], !.primary = TRUE, !.unique = TRUE, !.clustered = TRUE]

\* --------------------------------------------------------------- rendering

\* The grave accent (U+0060) that quotes a MySQL or SQLite identifier.  A TLA+
\* string cannot hold that character, so "~" stands for it in every text.
BackQuote == "~"

escapeSQLName(name) == IF mode = GeneratorModePostgres THEN "\"" \o name \o "\"" ELSE IF mode = GeneratorModeMssql THEN "[" \o name \o "]" ELSE BackQuote \o name \o BackQuote

escapeTableName(name) == IF mode \in {GeneratorModePostgres, GeneratorModeMssql} THEN (IF Len(SplitN2(name, <<".">>)) = 1 THEN escapeSQLName(IF mode = GeneratorModePostgres THEN "public" ELSE "dbo") \o "." \o escapeSQLName(Str(SplitN2(name, <<".">>)[1])) ELSE escapeSQLName(Str(SplitN2(name, <<".">>)[1])) \o "." \o escapeSQLName(Str(SplitN2(name, <<".">>)[2]))) ELSE escapeSQLName(Str(name))

generateDataType(column) == LET suffix == IF column.array THEN "[]" ELSE "" IN IF column.length # Nil THEN (IF column.scale # Nil THEN column.typeName \o "(" \o Str(column.length.raw) \o ", " \o Str(column.scale.raw) \o ")" \o suffix ELSE column.typeName \o "(" \o Str(column.length.raw) \o ")" \o suffix) ELSE IF column.typeName = "enum" THEN column.typeName \o "(" \o Join(column.enumValues, ", ") \o ")" \o suffix ELSE column.typeName \o suffix

UnsupportedDefaultValueKind == "unsupported default value type"

UnsupportedColumnKey == "unsupported column key"

generateDefaultDefinition(defaultVal) == CASE defaultVal.valueType = ValueTypeStr -> [def |-> "DEFAULT '" \o defaultVal.strVal \o "'", err |-> NoError] [] defaultVal.valueType = ValueTypeInt -> [def |-> "DEFAULT " \o FormatInt(defaultVal.intVal), err |-> NoError] [] defaultVal.valueType = ValueTypeFloat -> [def |-> "DEFAULT " \o FormatFloat(defaultVal.floatVal), err |-> NoError] [] defaultVal.valueType = ValueTypeBit -> [def |-> IF defaultVal.bitVal THEN "DEFAULT b'1'" ELSE "DEFAULT b'0'", err |-> NoError] [] defaultVal.valueType = ValueTypeValArg -> [def |-> "DEFAULT " \o Str(defaultVal.raw), err |-> NoError] [] OTHER -> [def |-> "", err |-> UnsupportedDefaultValueKind \o " (valueType: '" \o defaultVal.valueType \o "')"]

\* The pieces of the clause, each written by the code with a trailing space that TrimSpace and the next piece absorb.
generateSequenceClause(sequence) == Join(Concat(<<IF sequence.Name # "" THEN <<"SEQUENCE NAME " \o sequence.Name>> ELSE <<>>, IF sequence.StartWith # Nil THEN <<"START WITH " \o FormatInt(sequence.StartWith)>> ELSE <<>>, IF sequence.IncrementBy # Nil THEN <<"INCREMENT BY " \o FormatInt(sequence.IncrementBy)>> ELSE <<>>, IF sequence.MinValue # Nil THEN <<"MINVALUE " \o FormatInt(sequence.MinValue)>> ELSE <<>>, IF sequence.NoMinValue THEN <<"NO MINVALUE">> ELSE <<>>, IF sequence.MaxValue # Nil THEN <<"MAXVALUE " \o FormatInt(sequence.MaxValue)>> ELSE <<>>, IF sequence.NoMaxValue THEN <<"NO MAXVALUE">> ELSE <<>>, IF sequence.Cache # Nil THEN <<"CACHE " \o FormatInt(sequence.Cache)>> ELSE <<>>, IF sequence.Cycle THEN <<"CYCLE">> ELSE <<>>, IF sequence.NoCycle THEN <<"NO CYCLE">> ELSE <<>>>>), " ")

\* The pieces of a column definition in the order the code appends them.  The code
\* ends every piece with " " and trims one " " at the end; joining the pieces with
\* " " is the same text.
ColumnDefinitionPieces(column, enableUnique) == Concat(<< <<escapeSQLName(column.name) \o " " \o generateDataType(column)>>, IF column.unsigned THEN <<"UNSIGNED">> ELSE <<>>, IF column.timezone THEN <<"WITH TIME ZONE">> ELSE <<>>, IF column.charset # "" THEN <<"CHARACTER SET " \o column.charset>> ELSE <<>>, IF column.collate # "" THEN <<"COLLATE " \o column.collate>> ELSE <<>>, IF column.identity = "" /\ (column.notNull = "true" \/ column.keyOption = ColumnKeyPrimary) THEN <<"NOT NULL">> ELSE IF column.notNull = "false" THEN <<"NULL">> ELSE <<>>, IF column.defaultDef # Nil /\ column.defaultDef.value # Nil THEN <<generateDefaultDefinition(column.defaultDef.value).def>> ELSE <<>>, IF column.autoIncrement THEN <<"AUTO_INCREMENT">> ELSE <<>>, IF column.onUpdate # Nil THEN <<"ON UPDATE " \o Str(column.onUpdate.raw)>> ELSE <<>>, IF column.check # Nil THEN <<"CHECK (" \o column.check.definition \o ")">> ELSE <<>>, IF column.checkNoInherit THEN <<"NO INHERIT">> ELSE <<>>, IF column.keyOption = ColumnKeyUnique /\ enableUnique THEN <<"UNIQUE">> ELSE IF column.keyOption = ColumnKeyUniqueKey /\ enableUnique THEN <<"UNIQUE KEY">> ELSE <<>>, IF column.identity # "" THEN <<"GENERATED " \o column.identity \o " AS IDENTITY">> \o (IF column.sequence # Nil THEN <<"(" \o generateSequenceClause(column.sequence) \o ")">> ELSE <<>>) ELSE IF mode = GeneratorModeMssql /\ column.sequence # Nil THEN <<"IDENTITY(" \o FormatInt(column.sequence.StartWith) \o "," \o FormatInt(column.sequence.IncrementBy) \o ")">> ELSE <<>> >>)

generateColumnDefinition(column, enableUnique) == IF column.defaultDef # Nil /\ column.defaultDef.value # Nil /\ generateDefaultDefinition(column.defaultDef.value).err # NoError THEN [def |-> "", err |-> generateDefaultDefinition(column.defaultDef.value).err \o " in column: " \o column.name] ELSE IF column.keyOption \notin {ColumnKeyNone, ColumnKeyUnique, ColumnKeyUniqueKey, ColumnKeyPrimary} THEN [def |-> "", err |-> UnsupportedColumnKey \o " (keyOption: '" \o column.keyOption \o "') in column: " \o column.name] ELSE [def |-> Join(ColumnDefinitionPieces(column, enableUnique), " "), err |-> NoError]

IndexOptionValue(indexOption) == IF indexOption.value.valueType = ValueTypeBool THEN (IF Str(indexOption.value.raw) = "true" THEN "ON" ELSE "OFF") ELSE Str(indexOption.value.raw)

generateIndexOptionDefinition(indexOptions) == IF Len(indexOptions) = 0 THEN "" ELSE IF mode = GeneratorModeMysql THEN " " \o (IF indexOptions[1].optionName = "parser" THEN "WITH parser" ELSE indexOptions[1].optionName) \o " " \o Str(indexOptions[1].value.raw) ELSE IF mode = GeneratorModeMssql THEN " WITH (" \o Join([i \in 1..Len(indexOptions) |-> indexOptions[i].optionName \o " = " \o IndexOptionValue(indexOptions[i])], ", ") \o ")" ELSE ""

IndexColumnList(index) == Join([i \in 1..Len(index.columns) |-> escapeSQLName(index.columns[i].column) \o (IF index.columns[i].length # Nil THEN "(" \o FormatInt(index.columns[i].length) \o ")" ELSE "")], ", ")

generateAddIndex(table, index) == LET uniqueOption == IF index.unique THEN " UNIQUE" ELSE "" clusteredOption == IF index.clustered THEN " CLUSTERED" ELSE " NONCLUSTERED" tail == " (" \o IndexColumnList(index) \o ")" \o generateIndexOptionDefinition(index.options) IN IF mode = GeneratorModeMssql THEN (IF ~index.primary THEN "CREATE" \o uniqueOption \o clusteredOption \o " INDEX " \o escapeSQLName(index.name) \o " ON " \o escapeTableName(table) ELSE "ALTER TABLE " \o escapeTableName(table) \o " ADD" \o (IF index.name # "PRIMARY" THEN " CONSTRAINT " \o escapeSQLName(index.name) ELSE "") \o " " \o index.indexType \o clusteredOption) \o tail ELSE "ALTER TABLE " \o escapeTableName(table) \o " ADD " \o index.indexType \o (IF ~index.primary THEN " " \o escapeSQLName(index.name) ELSE "") \o tail

generateForeignKeyDefinition(foreignKey) == Join(Concat(<< <<"CONSTRAINT " \o escapeSQLName(foreignKey.constraintName) \o " FOREIGN KEY">>, IF foreignKey.indexName # "" THEN <<escapeSQLName(foreignKey.indexName)>> ELSE <<>>, <<"(" \o Join([i \in 1..Len(foreignKey.indexColumns) |-> escapeSQLName(foreignKey.indexColumns[i])], ",") \o ") REFERENCES " \o escapeSQLName(Str(foreignKey.referenceName)) \o " (" \o Join([i \in 1..Len(foreignKey.referenceColumns) |-> escapeSQLName(foreignKey.referenceColumns[i])], ",") \o ")">>, IF foreignKey.onDelete # "" THEN <<"ON DELETE " \o foreignKey.onDelete>> ELSE <<>>, IF foreignKey.onUpdate # "" THEN <<"ON UPDATE " \o foreignKey.onUpdate>> ELSE <<>> >>), " ")

generateDropIndex(tableName, indexName) == IF mode = GeneratorModeMysql THEN "ALTER TABLE " \o escapeTableName(tableName) \o " DROP INDEX " \o escapeSQLName(indexName) ELSE IF mode = GeneratorModePostgres THEN "DROP INDEX " \o escapeSQLName(indexName) ELSE IF mode = GeneratorModeMssql THEN "DROP INDEX " \o escapeSQLName(indexName) \o " ON " \o escapeTableName(tableName) ELSE ""

\* ---------------------------------------------------------- equality rules

dataTypeAliases(dataType) == CASE dataType = "bool" -> "boolean" [] dataType = "int" -> "integer" [] dataType = "char" -> "character" [] dataType = "varchar" -> "character varying" [] OTHER -> dataType

mysqlDataTypeAliases(dataType) == IF dataType = "boolean" THEN "tinyint" ELSE dataType

normalizeDataType(dataType) == IF mode = GeneratorModeMysql THEN mysqlDataTypeAliases(dataTypeAliases(dataType)) ELSE dataTypeAliases(dataType)

haveSameDataType(current, desired) ==
    /\ normalizeDataType(current.typeName) = normalizeDataType(desired.typeName)
    /\ (current.length = Nil \/ desired.length = Nil \/ current.length.intVal = desired.length.intVal)
    /\ current.array = desired.array

\* g.notNull
notNull(column) == IF column.notNull = "nil" THEN (mode = GeneratorModePostgres /\ column.typeName \in {"serial", "bigserial"}) ELSE column.notNull = "true"

isPrimaryKey(column, table) ==
    \/ column.keyOption = ColumnKeyPrimary
    \/ \E i \in 1..Len(table.indexes) : table.indexes[i].primary /\ \E j \in 1..Len(table.indexes[i].columns) : table.indexes[i].columns[j].column = column.name

\* The == of two *CheckDefinition: the same allocation.  The current column's check
\* was allocated by the parse of the current DDLs or of an earlier desired statement,
\* the desired column's by the parse of the statement being examined, so the two
\* pointers are equal only when both are nil.
SameCheckPointer(currentCheck, desiredCheck) == currentCheck = Nil /\ desiredCheck = Nil

haveSameColumnDefinition(current, desired) ==
    /\ haveSameDataType(current, desired)
    /\ current.unsigned = desired.unsigned
    /\ ((current.notNull = "true") = (desired.notNull = "true" \/ desired.keyOption = ColumnKeyPrimary))
    /\ current.timezone = desired.timezone
    /\ SameCheckPointer(current.check, desired.check)
    /\ (desired.charset = "" \/ current.charset = desired.charset)
    /\ (desired.collate = "" \/ current.collate = desired.collate)
    /\ current.onUpdate = desired.onUpdate

areSameCheckDefinition(checkA, checkB) == IF checkA = Nil /\ checkB = Nil THEN TRUE ELSE IF checkA = Nil \/ checkB = Nil THEN FALSE ELSE checkA.definition = checkB.definition

isNullValue(value) == value # Nil /\ value.valueType = ValueTypeValArg /\ Str(value.raw) = "null"

\* areSameValue that cuts whichever raw text is the longer.
areSameValueEitherSide(current, desired) == IF current = Nil /\ desired = Nil THEN TRUE ELSE IF current = Nil \/ desired = Nil THEN FALSE ELSE IF desired.valueType = ValueTypeFloat /\ Len(current.raw) > Len(desired.raw) THEN SubSeq(current.raw, 1, Len(desired.raw)) = desired.raw ELSE IF desired.valueType = ValueTypeFloat /\ Len(desired.raw) > Len(current.raw) THEN SubSeq(desired.raw, 1, Len(current.raw)) = current.raw ELSE current.raw = desired.raw

areSameValue(current, desired) == IF current = Nil /\ desired = Nil THEN TRUE ELSE IF current = Nil \/ desired = Nil THEN FALSE ELSE IF desired.valueType = ValueTypeFloat /\ Len(current.raw) > Len(desired.raw) THEN SubSeq(current.raw, 1, Len(desired.raw)) = desired.raw ELSE current.raw = desired.raw

areSameDefaultValue(currentDefault, desiredDefault) == areSameValue(IF currentDefault # Nil /\ ~isNullValue(currentDefault.value) THEN currentDefault.value ELSE Nil, IF desiredDefault # Nil /\ ~isNullValue(desiredDefault.value) THEN desiredDefault.value ELSE Nil)

\* areSameIndexes that also looks for the options of indexA on indexB.
areSameIndexesBothWays(indexA, indexB) ==
    /\ indexA.unique = indexB.unique
    /\ indexA.primary = indexB.primary
    /\ Len(indexA.columns) = Len(indexB.columns)
    /\ \A i \in 1..Len(indexA.columns) : indexA.columns[i].column = indexB.columns[i].column
    /\ indexA.where = indexB.where
    /\ \A i \in 1..Len(indexB.options) : \E k \in 1..Len(indexA.options) : indexA.options[k].optionName = indexB.options[i].optionName /\ indexA.options[k].value.raw = indexB.options[i].value.raw
    /\ \A i \in 1..Len(indexA.options) : \E k \in 1..Len(indexB.options) : indexB.options[k].optionName = indexA.options[i].optionName /\ indexB.options[k].value.raw = indexA.options[i].value.raw

areSameIndexes(indexA, indexB) ==
    /\ indexA.unique = indexB.unique
    /\ indexA.primary = indexB.primary
    /\ Len(indexA.columns) = Len(indexB.columns)
    /\ \A i \in 1..Len(indexA.columns) : indexA.columns[i].column = indexB.columns[i].column
    /\ indexA.where = indexB.where
    /\ \A i \in 1..Len(indexB.options) : /\ findIndexOptionByName(indexA.options, indexB.options[i].optionName) # Nil
                                          /\ areSameValue(findIndexOptionByName(indexA.options, indexB.options[i].optionName).value, indexB.options[i].value)

areSamePrimaryKeys(primaryKeyA, primaryKeyB) == IF primaryKeyA # Nil /\ primaryKeyB # Nil THEN areSameIndexes(primaryKeyA, primaryKeyB) ELSE primaryKeyA = Nil /\ primaryKeyB = Nil

normalizeOnUpdate(onUpdate) == IF mode \in {GeneratorModePostgres, GeneratorModeMssql} /\ onUpdate = "" THEN "NO ACTION" ELSE onUpdate

normalizeOnDelete(onDelete) == IF mode \in {GeneratorModePostgres, GeneratorModeMssql} /\ onDelete = "" THEN "NO ACTION" ELSE onDelete

\* areSameForeignKeys comparing ON UPDATE alone.
areSameForeignKeysOnUpdate(foreignKeyA, foreignKeyB) == normalizeOnUpdate(foreignKeyA.onUpdate) = normalizeOnUpdate(foreignKeyB.onUpdate)

areSameForeignKeys(foreignKeyA, foreignKeyB) ==
    /\ normalizeOnUpdate(foreignKeyA.onUpdate) = normalizeOnUpdate(foreignKeyB.onUpdate)
    /\ normalizeOnDelete(foreignKeyA.onDelete) = normalizeOnDelete(foreignKeyB.onDelete)

\* The characters the model's texts use, in the order of their byte values.
ByteOrder == <<" ", "(", ")", ".", "0", "1", "2", "3", "4", "5", "6", "7", "8", "9", "=">> \o UpperLetters \o <<"_">> \o LowerLetters

Ord(c) == CHOOSE i \in 1..Len(ByteOrder) : ByteOrder[i] = c

\* a <= b for two Go strings: byte by byte, a proper prefix first.
RECURSIVE StringLessEq(_, _)
StringLessEq(a, b) == IF a = <<>> THEN TRUE ELSE IF b = <<>> THEN FALSE ELSE IF Head(a) = Head(b) THEN StringLessEq(Tail(a), Tail(b)) ELSE Ord(Head(a)) < Ord(Head(b))

\* One pass of the insertion sort that sort.Slice runs on a short slice, with the
\* less function roles[i] <= roles[j]: the element moves left while it is <= its left neighbour.
RECURSIVE InsertLeft(_, _)
InsertLeft(sorted, x) == IF sorted = <<>> THEN <<x>> ELSE IF StringLessEq(x, sorted[Len(sorted)]) THEN Append(InsertLeft(SubSeq(sorted, 1, Len(sorted) - 1), x), sorted[Len(sorted)]) ELSE Append(sorted, x)

RECURSIVE SortRoles(_)
SortRoles(roles) == IF roles = <<>> THEN <<>> ELSE InsertLeft(SortRoles(SubSeq(roles, 1, Len(roles) - 1)), roles[Len(roles)])

\* Whether areSamePolicies gets as far as sorting the two role slices in place.
PoliciesReachSort(policyA, policyB) ==
    /\ ToLower(policyA.scope) = ToLower(policyB.scope)
    /\ ToLower(policyA.permissive) = ToLower(policyB.permissive)
    /\ ToLower(policyA.using) = ToLower(policyB.using)
    /\ ToLower(policyA.withCheck) = ToLower(policyB.withCheck)
    /\ Len(policyA.roles) = Len(policyB.roles)

areSamePolicies(policyA, policyB) == IF ToLower(policyA.scope) # ToLower(policyB.scope) THEN FALSE ELSE IF ToLower(policyA.permissive) # ToLower(policyB.permissive) THEN FALSE ELSE IF ToLower(policyA.using) # ToLower(policyB.using) THEN <<"(">> \o policyA.using \o <<")">> = policyB.using ELSE IF ToLower(policyA.withCheck) # ToLower(policyB.withCheck) THEN <<"(">> \o policyA.withCheck \o <<")">> = policyB.withCheck ELSE IF Len(policyA.roles) # Len(policyB.roles) THEN FALSE ELSE \A i \in 1..Len(policyA.roles) : ToLower(SortRoles(policyA.roles)[i]) = ToLower(SortRoles(policyB.roles)[i])

\* -------------------------------------------------- results of a generator

\* ([]string, error) of a generate function that ended well.
Result(stmts) == [ddls |-> stmts, err |-> NoError]

\* ([]string, error) of a generate function that returned an error.  The only caller
\* of each such function drops the statements on an error, so none are kept here.
Fail(e) == [ddls |-> <<>>, err |-> e]

\* The results of the iterations of a loop that returns at its first error.
Combine(results) == LET Bad(r) == r.err # NoError IN IF FirstIndex(results, Bad) # 0 THEN Fail(results[FirstIndex(results, Bad)].err) ELSE Result(Concat([i \in 1..Len(results) |-> results[i].ddls]))

PanicIndexOutOfRange == "panic: runtime error: index out of range"

MissingConstraintName == "Foreign key without constraint symbol was found in table"

\* ------------------------------------------- generateDDLsForCreateTable

\* The position clause that places every column first.
PositionClauseFirst(desired, i) == " FIRST"

\* " FIRST" or " AFTER <the desired column before index i>" (i counts from 1).
PositionClause(desired, i) == IF i > 1 THEN " AFTER " \o escapeSQLName(desired.table.columns[i - 1].name) ELSE " FIRST"

AddColumn(desired, i, desiredColumn) == LET definition == generateColumnDefinition(desiredColumn, TRUE) IN IF definition.err # NoError THEN Fail(definition.err) ELSE Result(<<(IF mode = GeneratorModeMssql THEN "ALTER TABLE " \o escapeTableName(desired.table.name) \o " ADD " \o definition.def ELSE "ALTER TABLE " \o escapeTableName(desired.table.name) \o " ADD COLUMN " \o definition.def) \o (IF mode = GeneratorModeMysql THEN PositionClause(desired, i) ELSE "")>>)

\* changeOrder by the positions alone.
changeOrderByPosition(currentTable, desired, currentColumn, desiredColumn) == currentColumn.position > desiredColumn.position

changeOrder(currentTable, desired, currentColumn, desiredColumn) == currentColumn.position > desiredColumn.position /\ currentColumn.position - desiredColumn.position > Len(currentTable.columns) - Len(desired.table.columns)

ChangeColumnMysql(currentTable, desired, i, currentColumn, desiredColumn) == LET definition == generateColumnDefinition(desiredColumn, FALSE) IN IF ~haveSameColumnDefinition(currentColumn, desiredColumn) \/ ~areSameDefaultValue(currentColumn.defaultDef, desiredColumn.defaultDef) \/ changeOrder(currentTable, desired, currentColumn, desiredColumn) THEN (IF definition.err # NoError THEN Fail(definition.err) ELSE Result(<<"ALTER TABLE " \o escapeTableName(desired.table.name) \o " CHANGE COLUMN " \o escapeSQLName(currentColumn.name) \o " " \o definition.def \o (IF changeOrder(currentTable, desired, currentColumn, desiredColumn) THEN PositionClause(desired, i) ELSE "")>>)) ELSE Result(<<>>)

AddUniqueKeyMysql(currentTable, desired, currentColumn, desiredColumn) == IF isUnique(desiredColumn.keyOption) /\ ~isUnique(currentColumn.keyOption) /\ findIndexByName(currentTable.indexes, desiredColumn.name) = Nil THEN Result(<<"ALTER TABLE " \o escapeTableName(desired.table.name) \o " ADD UNIQUE KEY " \o escapeSQLName(desiredColumn.name) \o "(" \o escapeSQLName(desiredColumn.name) \o ")">>) ELSE Result(<<>>)

ExamineColumnMysql(currentTable, desired, i, currentColumn, desiredColumn) == Combine(<<ChangeColumnMysql(currentTable, desired, i, currentColumn, desiredColumn), AddUniqueKeyMysql(currentTable, desired, currentColumn, desiredColumn)>>)

AlterPrefix(tableName, columnName) == "ALTER TABLE " \o escapeTableName(tableName) \o " ALTER COLUMN " \o escapeSQLName(columnName)

ChangeTypePostgres(desired, currentColumn, desiredColumn) == IF ~haveSameDataType(currentColumn, desiredColumn) THEN <<AlterPrefix(desired.table.name, currentColumn.name) \o " TYPE " \o generateDataType(desiredColumn)>> ELSE <<>>

ChangeNotNullPostgres(currentTable, desired, currentColumn, desiredColumn) == IF ~isPrimaryKey(currentColumn, currentTable) THEN (IF notNull(currentColumn) /\ ~notNull(desiredColumn) THEN <<AlterPrefix(desired.table.name, currentColumn.name) \o " DROP NOT NULL">> ELSE IF ~notNull(currentColumn) /\ notNull(desiredColumn) THEN <<AlterPrefix(desired.table.name, currentColumn.name) \o " SET NOT NULL">> ELSE <<>>) ELSE <<>>

ChangeIdentityPostgres(currentTable, desired, currentColumn, desiredColumn) == IF currentColumn.identity # desiredColumn.identity THEN (IF currentColumn.identity = "" THEN <<AlterPrefix(desired.table.name, desiredColumn.name) \o " ADD GENERATED " \o desiredColumn.identity \o " AS IDENTITY" \o (IF desiredColumn.sequence # Nil THEN " (" \o generateSequenceClause(desiredColumn.sequence) \o ")" ELSE "")>> ELSE IF desiredColumn.identity = "" THEN <<AlterPrefix(currentTable.name, currentColumn.name) \o " DROP IDENTITY IF EXISTS">> ELSE <<AlterPrefix(desired.table.name, desiredColumn.name) \o " SET GENERATED " \o desiredColumn.identity>>) ELSE <<>>

ChangeDefaultPostgres(currentTable, currentColumn, desiredColumn) == IF ~areSameDefaultValue(currentColumn.defaultDef, desiredColumn.defaultDef) THEN (IF desiredColumn.defaultDef = Nil THEN Result(<<AlterPrefix(currentTable.name, currentColumn.name) \o " DROP DEFAULT">>) ELSE IF generateDefaultDefinition(desiredColumn.defaultDef.value).err # NoError THEN Fail(generateDefaultDefinition(desiredColumn.defaultDef.value).err) ELSE Result(<<AlterPrefix(currentTable.name, currentColumn.name) \o " SET " \o generateDefaultDefinition(desiredColumn.defaultDef.value).def>>)) ELSE Result(<<>>)

ChangeCheckPostgres(desired, currentColumn, desiredColumn) == LET constraintName == Str(RemoveFirst(desired.table.name, <<"p", "u", "b", "l", "i", "c", ".">>)) \o "_" \o desiredColumn.name \o "_check" IN IF ~areSameCheckDefinition(currentColumn.check, desiredColumn.check) \/ currentColumn.checkNoInherit # desiredColumn.checkNoInherit THEN (IF currentColumn.check # Nil THEN <<"ALTER TABLE " \o escapeTableName(desired.table.name) \o " DROP CONSTRAINT " \o constraintName>> ELSE <<>>) \o (IF desiredColumn.check # Nil THEN <<"ALTER TABLE " \o escapeTableName(desired.table.name) \o " ADD CONSTRAINT " \o constraintName \o " CHECK (" \o desiredColumn.check.definition \o ")" \o (IF desiredColumn.checkNoInherit THEN " NO INHERIT" ELSE "")>> ELSE <<>>) ELSE <<>>

ExamineColumnPostgres(currentTable, desired, currentColumn, desiredColumn) == Combine(<<Result(ChangeTypePostgres(desired, currentColumn, desiredColumn)), Result(ChangeNotNullPostgres(currentTable, desired, currentColumn, desiredColumn)), Result(ChangeIdentityPostgres(currentTable, desired, currentColumn, desiredColumn)), ChangeDefaultPostgres(currentTable, currentColumn, desiredColumn), Result(ChangeCheckPostgres(desired, currentColumn, desiredColumn))>>)

ExamineColumnMssql(desired, currentColumn, desiredColumn) == LET constraintName == Str(RemoveFirst(desired.table.name, <<"d", "b", "o", ".">>)) \o "_" \o desiredColumn.name \o "_check" IN IF ~areSameCheckDefinition(currentColumn.check, desiredColumn.check) \/ currentColumn.checkNoInherit # desiredColumn.checkNoInherit THEN Result((IF currentColumn.check # Nil THEN <<"ALTER TABLE " \o escapeTableName(desired.table.name) \o " DROP CONSTRAINT " \o currentColumn.check.constraintName>> ELSE <<>>) \o (IF desiredColumn.check # Nil THEN <<"ALTER TABLE " \o escapeTableName(desired.table.name) \o " ADD CONSTRAINT " \o (IF desiredColumn.check.constraintName = "" THEN constraintName ELSE desiredColumn.check.constraintName) \o " CHECK (" \o desiredColumn.check.definition \o ")">> ELSE <<>>)) ELSE Result(<<>>)

\* One iteration of "Examine each column" that leaves desiredColumn.autoIncrement as it is.
ExamineColumnEager(currentTable, desired, i) == LET currentColumn == findColumnByName(currentTable.columns, desired.table.columns[i].name) desiredColumn == desired.table.columns[i] IN IF currentColumn = Nil THEN AddColumn(desired, i, desiredColumn) ELSE IF mode = GeneratorModeMysql THEN ExamineColumnMysql(currentTable, desired, i, currentColumn, desiredColumn) ELSE IF mode = GeneratorModePostgres THEN ExamineColumnPostgres(currentTable, desired, currentColumn, desiredColumn) ELSE IF mode = GeneratorModeMssql THEN ExamineColumnMssql(desired, currentColumn, desiredColumn) ELSE Result(<<>>)

\* One iteration of "Examine each column" for the desired column at index i (from 1).
ExamineColumn(currentTable, desired, i) == LET currentColumn == findColumnByName(currentTable.columns, desired.table.columns[i].name) desiredColumn == IF currentColumn = Nil \/ ~currentColumn.autoIncrement THEN [desired.table.columns[i] EXCEPT !.autoIncrement = FALSE] ELSE desired.table.columns[i] IN IF currentColumn = Nil THEN AddColumn(desired, i, desiredColumn) ELSE IF mode = GeneratorModeMysql THEN ExamineColumnMysql(currentTable, desired, i, currentColumn, desiredColumn) ELSE IF mode = GeneratorModePostgres THEN ExamineColumnPostgres(currentTable, desired, currentColumn, desiredColumn) ELSE IF mode = GeneratorModeMssql THEN ExamineColumnMssql(desired, currentColumn, desiredColumn) ELSE Result(<<>>)

ExamineColumns(currentTable, desired) == Combine([i \in 1..Len(desired.table.columns) |-> ExamineColumn(currentTable, desired, i)])

\* "Remove old AUTO_INCREMENT from deleted column before deleting key", one current column.
RemoveAutoIncrement(currentTable, desired, currentColumn) == LET desiredColumn == findColumnByName(desired.table.columns, currentColumn.name) definition == generateColumnDefinition([currentColumn EXCEPT !.autoIncrement = FALSE], FALSE) IN IF currentColumn.autoIncrement /\ (desiredColumn = Nil \/ ~desiredColumn.autoIncrement) THEN (IF definition.err # NoError THEN Fail(definition.err) ELSE Result(<<"ALTER TABLE " \o escapeTableName(currentTable.name) \o " CHANGE COLUMN " \o escapeSQLName(currentColumn.name) \o " " \o definition.def>>)) ELSE Result(<<>>)

RemoveAutoIncrements(currentTable, desired) == IF mode = GeneratorModeMysql THEN Combine([i \in 1..Len(currentTable.columns) |-> RemoveAutoIncrement(currentTable, desired, currentTable.columns[i])]) ELSE Result(<<>>)

DropPrimaryKey(desired) == IF mode = GeneratorModeMysql THEN Result(<<"ALTER TABLE " \o escapeTableName(desired.table.name) \o " DROP PRIMARY KEY">>) ELSE IF mode = GeneratorModePostgres THEN (IF Len(SplitN2(desired.table.name, <<".">>)) < 2 THEN Fail(PanicIndexOutOfRange) ELSE Result(<<"ALTER TABLE " \o escapeTableName(desired.table.name) \o " DROP CONSTRAINT " \o escapeSQLName(Str(SplitN2(desired.table.name, <<".">>)[2]) \o "_pkey")>>)) ELSE Result(<<>>)

\* "Examine primary key"
ExaminePrimaryKey(currentTable, desired) == IF ~areSamePrimaryKeys(PrimaryKey(currentTable), PrimaryKey(desired.table)) THEN Combine(<<IF PrimaryKey(currentTable) # Nil THEN DropPrimaryKey(desired) ELSE Result(<<>>), IF PrimaryKey(desired.table) # Nil THEN Result(<<generateAddIndex(desired.table.name, PrimaryKey(desired.table))>>) ELSE Result(<<>>)>>) ELSE Result(<<>>)

\* "Examine each index", one desired index.
ExamineIndex(currentTable, desired, desiredIndex) == IF desiredIndex.primary THEN <<>> ELSE IF findIndexByName(currentTable.indexes, desiredIndex.name) # Nil THEN (IF ~areSameIndexes(findIndexByName(currentTable.indexes, desiredIndex.name), desiredIndex) THEN <<generateDropIndex(desired.table.name, desiredIndex.name), generateAddIndex(desired.table.name, desiredIndex)>> ELSE <<>>) ELSE <<generateAddIndex(desired.table.name, desiredIndex)>>

ExamineIndexes(currentTable, desired) == Result(Concat([i \in 1..Len(desired.table.indexes) |-> ExamineIndex(currentTable, desired, desired.table.indexes[i])]))

\* "Add new AUTO_INCREMENT after adding index and primary key", one desired column.
AddAutoIncrement(currentTable, desired, desiredColumn) == LET currentColumn == findColumnByName(currentTable.columns, desiredColumn.name) definition == generateColumnDefinition(desiredColumn, FALSE) IN IF desiredColumn.autoIncrement /\ (currentColumn = Nil \/ ~currentColumn.autoIncrement) THEN (IF definition.err # NoError THEN Fail(definition.err) ELSE Result(<<"ALTER TABLE " \o escapeTableName(currentTable.name) \o " CHANGE COLUMN " \o escapeSQLName(desiredColumn.name) \o " " \o definition.def>>)) ELSE Result(<<>>)

AddAutoIncrements(currentTable, desired) == IF mode = GeneratorModeMysql THEN Combine([i \in 1..Len(desired.table.columns) |-> AddAutoIncrement(currentTable, desired, desired.table.columns[i])]) ELSE Result(<<>>)

DropForeignKey(desired, currentForeignKey) == IF mode = GeneratorModeMysql THEN <<"ALTER TABLE " \o escapeTableName(desired.table.name) \o " DROP FOREIGN KEY " \o escapeSQLName(currentForeignKey.constraintName)>> ELSE IF mode \in {GeneratorModePostgres, GeneratorModeMssql} THEN <<"ALTER TABLE " \o escapeTableName(desired.table.name) \o " DROP CONSTRAINT " \o escapeSQLName(currentForeignKey.constraintName)>> ELSE <<>>

\* "Examine each foreign key", one desired foreign key.
ExamineForeignKey(currentTable, desired, desiredForeignKey) == LET currentForeignKey == findForeignKeyByName(currentTable.foreignKeys, desiredForeignKey.constraintName) addDDL == "ALTER TABLE " \o escapeTableName(desired.table.name) \o " ADD " \o generateForeignKeyDefinition(desiredForeignKey) IN IF desiredForeignKey.constraintName = "" THEN Fail(MissingConstraintName \o " '" \o Str(desired.table.name) \o "' (index name: '" \o desiredForeignKey.indexName \o "', columns: [" \o Join(desiredForeignKey.indexColumns, " ") \o "]). Specify the constraint symbol to identify the foreign key.") ELSE IF currentForeignKey # Nil THEN (IF ~areSameForeignKeys(currentForeignKey, desiredForeignKey) THEN Result(DropForeignKey(desired, currentForeignKey) \o <<addDDL>>) ELSE Result(<<>>)) ELSE Result(<<addDDL>>)

ExamineForeignKeys(currentTable, desired) == Combine([i \in 1..Len(desired.table.foreignKeys) |-> ExamineForeignKey(currentTable, desired, desired.table.foreignKeys[i])])

generateDDLsForCreateTable(currentTable, desired) == Combine(<<ExamineColumns(currentTable, desired), RemoveAutoIncrements(currentTable, desired), ExaminePrimaryKey(currentTable, desired), ExamineIndexes(currentTable, desired), AddAutoIncrements(currentTable, desired), ExamineForeignKeys(currentTable, desired)>>)

\* ------------------------------------------------------------ mergeTable

RECURSIVE MergeNamed(_, _)
MergeNamed(into, from) == IF from = <<>> THEN into ELSE MergeNamed(IF \E i \in 1..Len(into) : into[i].name = Head(from).name THEN Append(into, Head(from)) ELSE into, Tail(from))

mergeTable(table1, table2) == [table1 EXCEPT !.columns = MergeNamed(table1.columns, table2.columns), !.indexes = MergeNamed(table1.indexes, table2.indexes)]

\* ------------------------------------------- the other per-statement generators

MissingTable(action, tableName, statement) == action \o " is performed for inexistent table '" \o Str(tableName) \o "': '" \o statement \o "'"

BeforeCreateTable(action, tableName, statement) == action \o " is performed before create table '" \o Str(tableName) \o "': '" \o statement \o "'"

DuplicateIndex(name, tableName, statement) == "index '" \o name \o "' is doubly created against table '" \o Str(tableName) \o "': '" \o statement \o "'"

DuplicatePolicy(name, tableName, statement) == "policy '" \o name \o "' is doubly created against table '" \o Str(tableName) \o "': '" \o statement \o "'"

DuplicateView(name, statement) == "view '" \o Str(name) \o "' is doubly created: '" \o statement \o "'"

UnknownStatement == "unexpected ddl type in generateDDLs"

UnsupportedPrimaryKeyRename(tableName, desiredName, currentName) == "primary key column name of '" \o Str(tableName) \o "' should be '" \o desiredName \o "' but currently '" \o currentName \o "'. This is not handled yet."

\* The simulated schema states of a Generator (its mode is the variable mode).
Generator(cTables, dTables, cViews, dViews) == [currentTables |-> cTables, desiredTables |-> dTables, currentViews |-> cViews, desiredViews |-> dViews]

\* (the generator after the call, []string, error) of a method that changes the generator.
Outcome(g, stmts, e) == [g |-> g, ddls |-> stmts, err |-> e]

\* currentTable.indexes after a CREATE INDEX / ADD INDEX of desiredIndex.
SimulateIndex(indexes, desiredIndex) == IF findIndexByName(indexes, desiredIndex.name) = Nil THEN Append(indexes, desiredIndex) ELSE IF ~areSameIndexes(findIndexByName(indexes, desiredIndex.name), desiredIndex) THEN [i \in 1..Len(indexes) |-> IF indexes[i].name = desiredIndex.name THEN desiredIndex ELSE indexes[i]] ELSE indexes

CreateIndexDDLs(currentTable, desiredIndex, statement) == IF findIndexByName(currentTable.indexes, desiredIndex.name) = Nil THEN <<statement>> ELSE IF ~areSameIndexes(findIndexByName(currentTable.indexes, desiredIndex.name), desiredIndex) THEN <<generateDropIndex(currentTable.name, findIndexByName(currentTable.indexes, desiredIndex.name).name), statement>> ELSE <<>>

generateDDLsForCreateIndex(g, tableName, desiredIndex, action, statement) == LET ci == findTableIndex(g.currentTables, tableName) di == findTableIndex(g.desiredTables, tableName) g1 == [g EXCEPT !.currentTables[ci].indexes = SimulateIndex(g.currentTables[ci].indexes, desiredIndex)] IN IF ci = 0 THEN Outcome(g, <<>>, MissingTable(action, tableName, statement)) ELSE IF di = 0 THEN Outcome(g1, <<>>, BeforeCreateTable(action, tableName, statement)) ELSE IF containsString(convertIndexesToIndexNames(g.desiredTables[di].indexes), desiredIndex.name) THEN Outcome(g1, <<>>, DuplicateIndex(desiredIndex.name, tableName, statement)) ELSE Outcome([g1 EXCEPT !.desiredTables[di].indexes = Append(g.desiredTables[di].indexes, desiredIndex)], CreateIndexDDLs(g.currentTables[ci], desiredIndex, statement), NoError)

\* generateDDLsForAddForeignKey handing the statement on to the output.
generateDDLsForAddForeignKeyEmitting(g, tableName, desiredForeignKey, action, statement) == LET di == findTableIndex(g.desiredTables, tableName) IN IF di = 0 THEN Outcome(g, <<>>, BeforeCreateTable(action, tableName, statement)) ELSE IF containsString(convertForeignKeysToConstraintNames(g.desiredTables[di].foreignKeys), desiredForeignKey.constraintName) THEN Outcome(g, <<>>, DuplicateIndex(desiredForeignKey.constraintName, tableName, statement)) ELSE Outcome([g EXCEPT !.desiredTables[di].foreignKeys = Append(g.desiredTables[di].foreignKeys, desiredForeignKey)], <<statement>>, NoError)

generateDDLsForAddForeignKey(g, tableName, desiredForeignKey, action, statement) == LET di == findTableIndex(g.desiredTables, tableName) IN IF di = 0 THEN Outcome(g, <<>>, BeforeCreateTable(action, tableName, statement)) ELSE IF containsString(convertForeignKeysToConstraintNames(g.desiredTables[di].foreignKeys), desiredForeignKey.constraintName) THEN Outcome(g, <<>>, DuplicateIndex(desiredForeignKey.constraintName, tableName, statement)) ELSE Outcome([g EXCEPT !.desiredTables[di].foreignKeys = Append(g.desiredTables[di].foreignKeys, desiredForeignKey)], <<>>, NoError)

\* The policy as areSamePolicies leaves it: the roles slice is sorted in place once the call reaches the sort.
SortedIfCompared(policy, other) == IF PoliciesReachSort(policy, other) THEN [policy EXCEPT !.roles = SortRoles(policy.roles)] ELSE policy

\* currentTable.policies after a CREATE POLICY of desiredPolicy.
SimulatePolicy(policies, desiredPolicy) == LET Has(p) == p.name = desiredPolicy.name k == FirstIndex(policies, Has) IN IF k = 0 THEN Append(policies, desiredPolicy) ELSE [policies EXCEPT ![k] = SortedIfCompared(policies[k], desiredPolicy)]

CreatePolicyDDLs(currentTable, desiredPolicy, statement) == LET currentPolicy == findPolicyByName(currentTable.policies, desiredPolicy.name) IN IF currentPolicy = Nil THEN <<statement>> ELSE IF ~areSamePolicies(currentPolicy, desiredPolicy) THEN <<"DROP POLICY " \o escapeSQLName(currentPolicy.name) \o " ON " \o escapeTableName(currentTable.name), statement>> ELSE <<>>

generateDDLsForCreatePolicy(g, tableName, desiredPolicy, action, statement) == LET ci == findTableIndex(g.currentTables, tableName) di == findTableIndex(g.desiredTables, tableName) g1 == [g EXCEPT !.currentTables[ci].policies = SimulatePolicy(g.currentTables[ci].policies, desiredPolicy)] currentPolicy == findPolicyByName(g.currentTables[ci].policies, desiredPolicy.name) recorded == IF currentPolicy = Nil THEN desiredPolicy ELSE SortedIfCompared(desiredPolicy, currentPolicy) IN IF ci = 0 THEN Outcome(g, <<>>, MissingTable(action, tableName, statement)) ELSE IF di = 0 THEN Outcome(g1, <<>>, BeforeCreateTable(action, tableName, statement)) ELSE IF containsString(convertPolicyNames(g.desiredTables[di].policies), desiredPolicy.name) THEN Outcome(g1, <<>>, DuplicatePolicy(desiredPolicy.name, tableName, statement)) ELSE Outcome([g1 EXCEPT !.desiredTables[di].policies = Append(g.desiredTables[di].policies, recorded)], CreatePolicyDDLs(g.currentTables[ci], desiredPolicy, statement), NoError)

\* generateDDLsForCreateView comparing the two definitions as they are written.
CreateViewDDLsByCase(g, viewName, desiredView) == LET currentView == findViewByName(g.currentViews, viewName) IN IF currentView = Nil THEN <<desiredView.statement>> ELSE IF currentView.definition # desiredView.definition THEN (IF mode \in {GeneratorModeSQLite3, GeneratorModeMssql} THEN <<"DROP VIEW " \o escapeTableName(viewName), "CREATE VIEW " \o escapeTableName(viewName) \o " AS " \o Str(desiredView.definition)>> ELSE <<"CREATE OR REPLACE VIEW " \o escapeTableName(viewName) \o " AS " \o Str(desiredView.definition)>>) ELSE <<>>

CreateViewDDLs(g, viewName, desiredView) == LET currentView == findViewByName(g.currentViews, viewName) IN IF currentView = Nil THEN <<desiredView.statement>> ELSE IF ToLower(currentView.definition) # ToLower(desiredView.definition) THEN (IF mode \in {GeneratorModeSQLite3, GeneratorModeMssql} THEN <<"DROP VIEW " \o escapeTableName(viewName), "CREATE VIEW " \o escapeTableName(viewName) \o " AS " \o Str(desiredView.definition)>> ELSE <<"CREATE OR REPLACE VIEW " \o escapeTableName(viewName) \o " AS " \o Str(desiredView.definition)>>) ELSE <<>>

generateDDLsForCreateView(g, viewName, desiredView) == IF containsString(convertViewNames(g.desiredViews), desiredView.name) THEN Outcome(g, <<>>, DuplicateView(desiredView.name, desiredView.statement)) ELSE Outcome([g EXCEPT !.desiredViews = Append(g.desiredViews, desiredView)], CreateViewDDLs(g, viewName, desiredView), NoError)

\* The *CreateTable case of the walk.
\* The table already exists: the statements guessed for it, then mergeTable.
AlterTableCase(g, ci, desired, tableDDLs) == IF tableDDLs.err # NoError THEN Outcome(g, <<>>, tableDDLs.err) ELSE Outcome([g EXCEPT !.currentTables[ci] = mergeTable(g.currentTables[ci], desired.table), !.desiredTables = Append(g.desiredTables, desired.table)], tableDDLs.ddls, NoError)

\* The *CreateTable case without the append to g.desiredTables.
CreateTableCaseUnrecorded(g, desired) == IF findTableIndex(g.currentTables, desired.table.name) # 0 THEN AlterTableCase(g, findTableIndex(g.currentTables, desired.table.name), desired, generateDDLsForCreateTable(g.currentTables[findTableIndex(g.currentTables, desired.table.name)], desired)) ELSE Outcome([g EXCEPT !.currentTables = Append(g.currentTables, desired.table)], <<desired.statement>>, NoError)

\* The *CreateTable case of the walk.
CreateTableCase(g, desired) == IF findTableIndex(g.currentTables, desired.table.name) # 0 THEN AlterTableCase(g, findTableIndex(g.currentTables, desired.table.name), desired, generateDDLsForCreateTable(g.currentTables[findTableIndex(g.currentTables, desired.table.name)], desired)) ELSE Outcome([g EXCEPT !.currentTables = Append(g.currentTables, desired.table), !.desiredTables = Append(g.desiredTables, desired.table)], <<desired.statement>>, NoError)

\* One iteration of "Incrementally examine desiredDDLs": the type switch on the statement.
ExamineDDL(g, ddl) == CASE ddl.kind = "CreateTable" -> CreateTableCase(g, ddl) [] ddl.kind = "CreateIndex" -> generateDDLsForCreateIndex(g, ddl.tableName, ddl.index, "CREATE INDEX", ddl.statement) [] ddl.kind = "AddIndex" -> generateDDLsForCreateIndex(g, ddl.tableName, ddl.index, "ALTER TABLE", ddl.statement) [] ddl.kind = "AddForeignKey" -> generateDDLsForAddForeignKey(g, ddl.tableName, ddl.foreignKey, "ALTER TABLE", ddl.statement) [] ddl.kind = "AddPolicy" -> generateDDLsForCreatePolicy(g, ddl.tableName, ddl.policy, "CREATE POLICY", ddl.statement) [] ddl.kind = "View" -> generateDDLsForCreateView(g, ddl.name, ddl) [] OTHER -> Outcome(g, <<>>, UnknownStatement)

\* What generateDDLs returns with the error of an iteration: nil in the default case, the statements gathered so far otherwise.
ReturnedOnError(ddl, gathered) == IF ddl.kind \in {"CreateTable", "CreateIndex", "AddIndex", "AddForeignKey", "AddPolicy", "View"} THEN gathered ELSE <<>>

\* ---- Clean up obsoleted tables, indexes, columns ----

generateDDLsForAbsentColumn(currentTable, columnName) == LET Named(c) == c.name = columnName /\ c.defaultDef # Nil /\ c.defaultDef.constraintName # "" constraints == SelectSeq(currentTable.columns, Named) IN (IF mode = GeneratorModeMssql THEN [i \in 1..Len(constraints) |-> "ALTER TABLE " \o escapeTableName(currentTable.name) \o " DROP CONSTRAINT " \o escapeSQLName(constraints[i].defaultDef.constraintName)] ELSE <<>>) \o <<"ALTER TABLE " \o escapeTableName(currentTable.name) \o " DROP COLUMN " \o escapeSQLName(columnName)>>

\* generateDDLsForAbsentForeignKey that does not look for a column still declaring the reference.
generateDDLsForAbsentForeignKeyAlways(currentForeignKey, currentTable, desiredTable) == IF mode = GeneratorModeMysql THEN <<"ALTER TABLE " \o escapeTableName(currentTable.name) \o " DROP FOREIGN KEY " \o escapeSQLName(currentForeignKey.constraintName)>> ELSE IF mode \in {GeneratorModePostgres, GeneratorModeMssql} THEN <<"ALTER TABLE " \o escapeTableName(currentTable.name) \o " DROP CONSTRAINT " \o escapeSQLName(currentForeignKey.constraintName)>> ELSE <<>>

generateDDLsForAbsentForeignKey(currentForeignKey, currentTable, desiredTable) == IF mode = GeneratorModeMysql THEN <<"ALTER TABLE " \o escapeTableName(currentTable.name) \o " DROP FOREIGN KEY " \o escapeSQLName(currentForeignKey.constraintName)>> ELSE IF mode \in {GeneratorModePostgres, GeneratorModeMssql} THEN (IF \E i \in 1..Len(desiredTable.columns) : desiredTable.columns[i].references = currentForeignKey.referenceName THEN <<>> ELSE <<"ALTER TABLE " \o escapeTableName(currentTable.name) \o " DROP CONSTRAINT " \o escapeSQLName(currentForeignKey.constraintName)>>) ELSE <<>>

generateDDLsForAbsentIndex(currentIndex, currentTable, desiredTable) == LET primaryKeyColumns == SelectSeq(desiredTable.columns, LAMBDA c : c.keyOption = ColumnKeyPrimary) IN IF currentIndex.primary THEN (IF primaryKeyColumns = <<>> THEN (IF mode = GeneratorModeMssql THEN Result(<<"ALTER TABLE " \o escapeTableName(currentTable.name) \o " DROP CONSTRAINT " \o escapeSQLName(currentIndex.name)>>) ELSE Result(<<>>)) ELSE IF currentIndex.columns = <<>> THEN Fail(PanicIndexOutOfRange) ELSE IF primaryKeyColumns[1].name # currentIndex.columns[1].column THEN Fail(UnsupportedPrimaryKeyRename(currentTable.name, primaryKeyColumns[1].name, currentIndex.columns[1].column)) ELSE Result(<<>>)) ELSE IF currentIndex.unique THEN (IF desiredTable.columns # <<>> /\ currentIndex.columns = <<>> THEN Fail(PanicIndexOutOfRange) ELSE IF \E i \in 1..Len(desiredTable.columns) : desiredTable.columns[i].name = currentIndex.columns[1].column /\ isUnique(desiredTable.columns[i].keyOption) THEN Result(<<>>) ELSE Result(<<generateDropIndex(currentTable.name, currentIndex.name)>>)) ELSE Result(<<generateDropIndex(currentTable.name, currentIndex.name)>>)

\* removeTableByName with the comparison of the names inverted.
keepTableByName(tables, name) == SelectSeq(tables, LAMBDA t : t.name = name)

removeTableByName(tables, name) == SelectSeq(tables, LAMBDA t : t.name # name)

\* log.Fatalf in removeTableByName: the process exits and returns nothing.
FatalRemoveTable(name) == "Failed to removeTableByName: Table " \o Str(name) \o " is not found"

\* Drop foreign keys prior to index deletion.
CleanupForeignKeys(currentTable, desiredTable) == Concat([i \in 1..Len(currentTable.foreignKeys) |-> IF containsString(convertForeignKeysToConstraintNames(desiredTable.foreignKeys), currentTable.foreignKeys[i].constraintName) THEN <<>> ELSE generateDDLsForAbsentForeignKey(currentTable.foreignKeys[i], currentTable, desiredTable)])

\* Check indexes: one result per current index, in order.
CleanupIndexResults(currentTable, desiredTable) == [i \in 1..Len(currentTable.indexes) |-> IF containsString(convertIndexesToIndexNames(desiredTable.indexes), currentTable.indexes[i].name) \/ containsString(convertForeignKeysToIndexNames(desiredTable.foreignKeys), currentTable.indexes[i].name) THEN Result(<<>>) ELSE generateDDLsForAbsentIndex(currentTable.indexes[i], currentTable, desiredTable)]

\* The index loop returns the statements gathered before the first failing index together with its error.
KeepUntilError(results, k) == IF k = 0 THEN Result(Concat([i \in 1..Len(results) |-> results[i].ddls])) ELSE [ddls |-> Concat([i \in 1..(k - 1) |-> results[i].ddls]), err |-> results[k].err]

FirstError(results) == LET Bad(r) == r.err # NoError IN FirstIndex(results, Bad)

CleanupIndexes(currentTable, desiredTable) == KeepUntilError(CleanupIndexResults(currentTable, desiredTable), FirstError(CleanupIndexResults(currentTable, desiredTable)))

\* Check columns.
CleanupColumns(currentTable, desiredTable) == Concat([i \in 1..Len(currentTable.columns) |-> IF containsString(convertColumnsToColumnNames(desiredTable.columns), currentTable.columns[i].name) THEN <<>> ELSE generateDDLsForAbsentColumn(currentTable, currentTable.columns[i].name)])

\* Check policies.
CleanupPolicies(currentTable, desiredTable) == Concat([i \in 1..Len(currentTable.policies) |-> IF containsString(convertPolicyNames(desiredTable.policies), currentTable.policies[i].name) THEN <<>> ELSE <<"DROP POLICY " \o escapeSQLName(currentTable.policies[i].name) \o " ON " \o escapeTableName(currentTable.name)>>])

DropTable(name) == "DROP TABLE " \o escapeTableName(name)

\* The table is expected to exist: its obsoleted foreign keys, indexes, columns and policies, in that order.
CleanupKeptTable(g, foreignKeys, indexes, columns, policies) == IF indexes.err # NoError THEN Outcome(g, foreignKeys \o indexes.ddls, indexes.err) ELSE Outcome(g, Concat(<<foreignKeys, indexes.ddls, columns, policies>>), NoError)

\* One iteration of the loop over g.currentTables.
CleanupTable(g, currentTable) == IF findTableByName(g.desiredTables, currentTable.name) = Nil THEN (IF findTableIndex(g.currentTables, currentTable.name) = 0 THEN Outcome(g, <<DropTable(currentTable.name)>>, FatalRemoveTable(currentTable.name)) ELSE Outcome([g EXCEPT !.currentTables = removeTableByName(g.currentTables, currentTable.name)], <<DropTable(currentTable.name)>>, NoError)) ELSE CleanupKeptTable(g, CleanupForeignKeys(currentTable, findTableByName(g.desiredTables, currentTable.name)), CleanupIndexes(currentTable, findTableByName(g.desiredTables, currentTable.name)), CleanupColumns(currentTable, findTableByName(g.desiredTables, currentTable.name)), CleanupPolicies(currentTable, findTableByName(g.desiredTables, currentTable.name)))

DropView(name) == "DROP VIEW " \o escapeTableName(name)

\* Clean up obsoleted views.
CleanupViews(g) == Concat([i \in 1..Len(g.currentViews) |-> IF containsString(convertViewNames(g.desiredViews), g.currentViews[i].name) THEN <<>> ELSE <<DropView(g.currentViews[i].name)>>])

\* ---- From the current DDLs to the simulated current schema ----

UnknownCurrentStatement == "unexpected ddl type in convertDDLsToTables"

BeforeCreateTableCurrent(what, statement) == what \o " before CREATE TABLE: " \o statement

AppendTo(tables, stmt, what, field, value) == LET k == findTableIndex(tables, stmt.tableName) IN IF k = 0 THEN [tables |-> <<>>, err |-> BeforeCreateTableCurrent(what, stmt.statement)] ELSE [tables |-> [tables EXCEPT ![k][field] = Append(tables[k][field], value)], err |-> NoError]

MarkPrimaryKey(columns, stmt) == [i \in 1..Len(columns) |-> IF columns[i].name = stmt.index.columns[1].column THEN [columns[i] EXCEPT !.keyOption = ColumnKeyPrimary] ELSE columns[i]]

ConvertDDL(tables, stmt) == LET k == findTableIndex(tables, stmt.tableName) IN CASE stmt.kind = "CreateTable" -> [tables |-> Append(tables, stmt.table), err |-> NoError] [] stmt.kind = "CreateIndex" -> AppendTo(tables, stmt, "CREATE INDEX is performed", "indexes", stmt.index) [] stmt.kind = "AddPrimaryKey" -> (IF k = 0 THEN [tables |-> <<>>, err |-> BeforeCreateTableCurrent("ADD PRIMARY KEY is performed", stmt.statement)] ELSE [tables |-> [tables EXCEPT ![k].columns = MarkPrimaryKey(tables[k].columns, stmt)], err |-> NoError]) [] stmt.kind = "AddForeignKey" -> AppendTo(tables, stmt, "ADD FOREIGN KEY is performed", "foreignKeys", stmt.foreignKey) [] stmt.kind = "AddPolicy" -> AppendTo(tables, stmt, "ADD POLICY performed", "policies", stmt.policy) [] stmt.kind = "View" -> [tables |-> tables, err |-> NoError] [] OTHER -> [tables |-> <<>>, err |-> UnknownCurrentStatement]

RECURSIVE ConvertFrom(_, _)
ConvertFrom(tables, stmts) == IF stmts = <<>> THEN [tables |-> tables, err |-> NoError] ELSE IF ConvertDDL(tables, Head(stmts)).err # NoError THEN ConvertDDL(tables, Head(stmts)) ELSE ConvertFrom(ConvertDDL(tables, Head(stmts)).tables, Tail(stmts))

convertDDLsToTables(stmts) == ConvertFrom(<<>>, stmts)

convertDDLsToViews(stmts) == SelectSeq(stmts, LAMBDA d : d.kind = "View")

\* ---- The whole of generateDDLs as a function of the generator and the desired DDLs ----

\* On a panic or log.Fatalf the process ends and the caller receives nothing.
\* The table names of the inputs: one without a schema, one with.
Users == <<"u">>

Posts == <<"d", "b", "o", ".", "p">>

TableNames == {Users, Posts}

Crashed(e) == e = PanicIndexOutOfRange \/ \E n \in TableNames : e = FatalRemoveTable(n)

RECURSIVE ExamineFrom(_, _, _)
Examined(gathered, stmts, out) == IF out.err # NoError THEN Outcome(out.g, IF Crashed(out.err) THEN <<>> ELSE ReturnedOnError(Head(stmts), gathered), out.err) ELSE ExamineFrom(out.g, gathered \o out.ddls, Tail(stmts))

ExamineFrom(g, gathered, stmts) == IF stmts = <<>> THEN Outcome(g, gathered, NoError) ELSE Examined(gathered, stmts, ExamineDDL(g, Head(stmts)))

RECURSIVE CleanupFrom(_, _, _)
Cleaned(gathered, tables, out) == IF out.err # NoError THEN Outcome(out.g, IF Crashed(out.err) THEN <<>> ELSE gathered \o out.ddls, out.err) ELSE CleanupFrom(out.g, gathered \o out.ddls, Tail(tables))

CleanupFrom(g, gathered, tables) == IF tables = <<>> THEN Outcome(g, gathered, NoError) ELSE Cleaned(gathered, tables, CleanupTable(g, Head(tables)))

ThenViews(cleaned) == IF cleaned.err # NoError THEN cleaned ELSE Outcome(cleaned.g, cleaned.ddls \o CleanupViews(cleaned.g), NoError)

ThenCleanup(examined) == IF examined.err # NoError THEN examined ELSE ThenViews(CleanupFrom(examined.g, examined.ddls, examined.g.currentTables))

generateDDLs(g, stmts) == ThenCleanup(ExamineFrom(g, <<>>, stmts))

\* ---- The inputs: what the parser hands over for a few small schemas ----

CreateTableOf(text, name, columns, indexes) == [kind |-> "CreateTable", statement |-> text, table |-> [ZeroTable EXCEPT !.name = name, !.columns = columns, !.indexes = indexes]]

CreateIndexOf(text, name, index) == [kind |-> "CreateIndex", statement |-> text, tableName |-> name, index |-> index]

AddIndexOf(text, name, index) == [kind |-> "AddIndex", statement |-> text, tableName |-> name, index |-> index]

AddPrimaryKeyOf(text, name, index) == [kind |-> "AddPrimaryKey", statement |-> text, tableName |-> name, index |-> index]

AddForeignKeyOf(text, name, foreignKey) == [kind |-> "AddForeignKey", statement |-> text, tableName |-> name, foreignKey |-> foreignKey]

AddPolicyOf(text, name, policy) == [kind |-> "AddPolicy", statement |-> text, tableName |-> name, policy |-> policy]

ViewOf(text, name, definition) == [kind |-> "View", statement |-> text, name |-> name, definition |-> definition]

IdKey == [ZeroColumn EXCEPT !.name = "id", !.typeName = "int", !.keyOption = ColumnKeyPrimary]

Id == [ZeroColumn EXCEPT !.name = "id", !.typeName = "int", !.notNull = "true"]

DefaultX(constraintName) == [constraintName |-> constraintName, value |-> [ZeroValue EXCEPT !.valueType = ValueTypeStr, !.raw = <<"x">>, !.strVal = "x"]]

Note(constraintName) == [ZeroColumn EXCEPT !.name = "note", !.position = 1, !.typeName = "text", !.defaultDef = DefaultX(constraintName)]

OnId(name, unique) == [ZeroIndex EXCEPT !.name = name, !.indexType = IF unique THEN "unique key" ELSE "key", !.columns = <<[column |-> "id", length |-> Nil]>>, !.unique = unique]

UsersKeyed == CreateTableOf("CREATE TABLE u (id int PRIMARY KEY)", Users, <<IdKey>>, <<>>)

UsersPlain == CreateTableOf("CREATE TABLE u (id int NOT NULL)", Users, <<Id>>, <<>>)

UsersNamedDefault == CreateTableOf("CREATE TABLE u (id int NOT NULL, note text CONSTRAINT df DEFAULT 'x')", Users, <<Id, Note("df")>>, <<>>)

UsersDefault == CreateTableOf("CREATE TABLE u (id int NOT NULL, note text DEFAULT 'x')", Users, <<Id, Note("")>>, <<>>)

UsersIndexed == CreateTableOf("CREATE TABLE u (id int NOT NULL, INDEX i (id))", Users, <<Id>>, <<OnId("i", FALSE)>>)

PostsPlain == CreateTableOf("CREATE TABLE dbo.p (id int NOT NULL)", Posts, <<Id>>, <<>>)

IndexI == CreateIndexOf("CREATE INDEX i ON u (id)", Users, OnId("i", FALSE))

UniqueIndexI == CreateIndexOf("CREATE UNIQUE INDEX i ON u (id)", Users, OnId("i", TRUE))

AddIndexI == AddIndexOf("ALTER TABLE u ADD INDEX i (id)", Users, OnId("i", FALSE))

AddPrimaryKeyId == AddPrimaryKeyOf("ALTER TABLE u ADD PRIMARY KEY (id)", Users, [OnId("PRIMARY", TRUE) EXCEPT !.indexType = "primary key", !.primary = TRUE])

ViewLower == ViewOf("CREATE VIEW v AS s", <<"v">>, <<"s">>)

ViewUpper == ViewOf("CREATE VIEW v AS S", <<"v">>, <<"S">>)

ViewOther == ViewOf("CREATE VIEW v AS t", <<"v">>, <<"t">>)

ForeignKeyTo(constraintName) == [ZeroForeignKey EXCEPT !.constraintName = constraintName, !.indexColumns = <<"id">>, !.referenceName = Posts, !.referenceColumns = <<"id">>]

UsersReferencing == [UsersPlain EXCEPT !.statement = "CREATE TABLE u (id int NOT NULL, CONSTRAINT fk FOREIGN KEY (id) REFERENCES dbo.p (id))", !.table.foreignKeys = <<ForeignKeyTo("fk")>>]

AddForeignKeyNamed == AddForeignKeyOf("ALTER TABLE u ADD CONSTRAINT fk FOREIGN KEY (id) REFERENCES dbo.p (id)", Users, ForeignKeyTo("fk"))

AddForeignKeyUnnamed == AddForeignKeyOf("ALTER TABLE u ADD FOREIGN KEY (id) REFERENCES dbo.p (id)", Users, ForeignKeyTo(""))

PolicyFor(roles) == [ZeroPolicy EXCEPT !.name = "pol", !.permissive = <<"P">>, !.scope = <<"A">>, !.roles = roles]

AddPolicyAB == AddPolicyOf("CREATE POLICY pol ON u TO a, B", Users, PolicyFor(<<<<"a">>, <<"B">>>>))

AddPolicyBA == AddPolicyOf("CREATE POLICY pol ON u TO b, A", Users, PolicyFor(<<<<"b">>, <<"A">>>>))

\* Each scenario is one small family of schemas; a run takes its current and its desired DDLs from one family.
Scenarios == {"columns", "indexes", "views", "constraints"}

Pool(scenario) == CASE scenario = "columns" -> {UsersKeyed, UsersPlain, UsersNamedDefault, UsersDefault, PostsPlain} [] scenario = "indexes" -> {UsersPlain, UsersIndexed, IndexI, UniqueIndexI, AddIndexI, AddPrimaryKeyId} [] scenario = "views" -> {UsersPlain, PostsPlain, ViewLower, ViewUpper, ViewOther} [] scenario = "constraints" -> {UsersPlain, UsersReferencing, AddForeignKeyNamed, AddForeignKeyUnnamed, AddPolicyAB, AddPolicyBA}

SeqsUpTo(S, n) == UNION {[1..k -> S] : k \in 0..n}

\* A database holds one table and one view of a name: the current DDLs are its dump.
UniqueNames(stmts) == \A i, j \in 1..Len(stmts) : (i < j /\ stmts[i].kind = stmts[j].kind /\ stmts[i].kind = "CreateTable" => stmts[i].table.name # stmts[j].table.name) /\ (i < j /\ stmts[i].kind = stmts[j].kind /\ stmts[i].kind = "View" => stmts[i].name # stmts[j].name)

CurrentInputs(scenario) == {stmts \in SeqsUpTo(Pool(scenario), MaxCurrent) : UniqueNames(stmts)}

\* ---- The run of GenerateIdempotentDDLs, one loop iteration at a time ----

TheGenerator == Generator(currentTables, desiredTables, currentViews, desiredViews)

Becomes(g) ==
    /\ currentTables' = g.currentTables
    /\ desiredTables' = g.desiredTables
    /\ currentViews' = g.currentViews
    /\ desiredViews' = g.desiredViews

\* GenerateIdempotentDDLs up to the call of generateDDLs: the generator built from the current DDLs, or the error of convertDDLsToTables.
Init ==
    /\ scn \in Scenarios
    /\ mode \in Modes
    /\ currentDDLs \in CurrentInputs(scn)
    /\ desiredDDLs = <<>>
    /\ desiredTables = <<>>
    /\ currentTables = convertDDLsToTables(currentDDLs).tables
    /\ desiredViews = <<>>
    /\ currentViews = IF convertDDLsToTables(currentDDLs).err = NoError THEN convertDDLsToViews(currentDDLs) ELSE <<>>
    /\ ddls = <<>>
    /\ err = convertDDLsToTables(currentDDLs).err
    /\ pc = IF convertDDLsToTables(currentDDLs).err = NoError THEN "walk" ELSE "done"
    /\ walkTables = <<>>

\* One iteration of the loop over desiredDDLs, for the statement ddl whose case of the switch gave out.
Examine(ddl, out) ==
    /\ pc = "walk"
    /\ Len(desiredDDLs) < MaxDesired
    /\ desiredDDLs' = Append(desiredDDLs, ddl)
    /\ Becomes(out.g)
    /\ err' = out.err
    /\ ddls' = IF out.err = NoError THEN ddls \o out.ddls ELSE IF Crashed(out.err) THEN <<>> ELSE ReturnedOnError(ddl, ddls)
    /\ pc' = IF out.err = NoError THEN "walk" ELSE "done"
    /\ UNCHANGED <<mode, currentDDLs, walkTables, scn>>

ExamineCreateTable == \E ddl \in Pool(scn) : ddl.kind = "CreateTable" /\ Examine(ddl, CreateTableCase(TheGenerator, ddl))

ExamineCreateIndex == \E ddl \in Pool(scn) : ddl.kind = "CreateIndex" /\ Examine(ddl, generateDDLsForCreateIndex(TheGenerator, ddl.tableName, ddl.index, "CREATE INDEX", ddl.statement))

ExamineAddIndex == \E ddl \in Pool(scn) : ddl.kind = "AddIndex" /\ Examine(ddl, generateDDLsForCreateIndex(TheGenerator, ddl.tableName, ddl.index, "ALTER TABLE", ddl.statement))

ExamineAddForeignKey == \E ddl \in Pool(scn) : ddl.kind = "AddForeignKey" /\ Examine(ddl, generateDDLsForAddForeignKey(TheGenerator, ddl.tableName, ddl.foreignKey, "ALTER TABLE", ddl.statement))

ExamineAddPolicy == \E ddl \in Pool(scn) : ddl.kind = "AddPolicy" /\ Examine(ddl, generateDDLsForCreatePolicy(TheGenerator, ddl.tableName, ddl.policy, "CREATE POLICY", ddl.statement))

ExamineView == \E ddl \in Pool(scn) : ddl.kind = "View" /\ Examine(ddl, generateDDLsForCreateView(TheGenerator, ddl.name, ddl))

\* The default case of the type switch: *AddPrimaryKey is the one DDL type without a case.
ExamineUnexpected == \E ddl \in Pool(scn) : ddl.kind = "AddPrimaryKey" /\ Examine(ddl, Outcome(TheGenerator, <<>>, UnknownStatement))

\* generateDDLs with the loop over g.currentViews placed before the loop over g.currentTables.
StartCleanupWithViews ==
    /\ pc = "walk"
    /\ pc' = "cleanup"
    /\ walkTables' = currentTables
    /\ ddls' = ddls \o CleanupViews(TheGenerator)
    /\ UNCHANGED <<mode, currentDDLs, desiredDDLs, desiredTables, currentTables, desiredViews, currentViews, err, scn>>

\* The loop over desiredDDLs is over; the loop over g.currentTables ranges over the slice as it is now.
StartCleanup ==
    /\ pc = "walk"
    /\ pc' = "cleanup"
    /\ walkTables' = currentTables
    /\ UNCHANGED <<mode, currentDDLs, desiredDDLs, desiredTables, currentTables, desiredViews, currentViews, ddls, err, scn>>

\* One iteration of the loop over g.currentTables.
CleanedTable(out) ==
    /\ pc = "cleanup"
    /\ walkTables # <<>>
    /\ walkTables' = Tail(walkTables)
    /\ Becomes(out.g)
    /\ err' = out.err
    /\ ddls' = IF Crashed(out.err) THEN <<>> ELSE ddls \o out.ddls
    /\ pc' = IF out.err = NoError THEN "cleanup" ELSE "done"
    /\ UNCHANGED <<mode, currentDDLs, desiredDDLs, scn>>

CleanupNextTable == walkTables # <<>> /\ CleanedTable(CleanupTable(TheGenerator, Head(walkTables)))

\* The loop over g.currentViews and the return.
CleanupObsoleteViews ==
    /\ pc = "cleanup"
    /\ walkTables = <<>>
    /\ ddls' = ddls \o CleanupViews(TheGenerator)
    /\ pc' = "done"
    /\ UNCHANGED <<mode, currentDDLs, desiredDDLs, desiredTables, currentTables, desiredViews, currentViews, err, walkTables, scn>>

Next ==
    \/ ExamineCreateTable
    \/ ExamineCreateIndex
    \/ ExamineAddIndex
    \/ ExamineAddForeignKey
    \/ ExamineAddPolicy
    \/ ExamineView
    \/ ExamineUnexpected
    \/ StartCleanup
    \/ CleanupNextTable
    \/ CleanupObsoleteViews

Spec == Init /\ [][Next]_vars

\* ---- Properties of the diff ----

\* The diff has returned, and returned no error.
Succeeded == pc = "done" /\ err = NoError

\* The original texts of a DDL list, in order.
Statements(stmts) == [i \in 1..Len(stmts) |-> stmts[i].statement]

Count(stmts, statement) == Cardinality({i \in 1..Len(stmts) : stmts[i] = statement})

ViewNames == {<<"v">>}

IsDropTable(statement) == \E n \in TableNames : statement = "DROP TABLE " \o escapeTableName(n)

IsDropView(statement) == \E n \in ViewNames : statement = "DROP VIEW " \o escapeTableName(n)

\* The schema the current DDLs describe, before the diff simulates anything on it.
CurrentSchema == [tables |-> convertDDLsToTables(currentDDLs).tables, views |-> convertDDLsToViews(currentDDLs)]

\* C1 (identity): the diff of a DDL list against itself returns no error and no statement.
IdentityYieldsNothing == pc = "done" /\ desiredDDLs = currentDDLs => err = NoError /\ ddls = <<>>

\* The SQL effect of a statement on a schema, for the statements whose effect needs no knowledge of a
\* database: the empty statement changes nothing, DROP TABLE and DROP VIEW remove what they name.
Executable(schema, statement) == statement = "" \/ (\E i \in 1..Len(schema.tables) : statement = "DROP TABLE " \o escapeTableName(schema.tables[i].name)) \/ (\E i \in 1..Len(schema.views) : statement = "DROP VIEW " \o escapeTableName(schema.views[i].name))

Execute(schema, statement) == IF statement = "" THEN schema ELSE [tables |-> SelectSeq(schema.tables, LAMBDA t : statement # "DROP TABLE " \o escapeTableName(t.name)), views |-> SelectSeq(schema.views, LAMBDA v : statement # "DROP VIEW " \o escapeTableName(v.name))]

RECURSIVE Apply(_, _)
Apply(schema, stmts) == IF stmts = <<>> THEN schema ELSE Apply(Execute(schema, Head(stmts)), Tail(stmts))

\* The diff of the desired DDLs against a schema.
DiffAgainst(schema) == generateDDLs(Generator(schema.tables, <<>>, schema.views, <<>>), desiredDDLs)

\* C2 (idempotence): when a diff succeeds and each of its statements is one whose effect is known
\* (empty, DROP TABLE, DROP VIEW), the diff of the same desired DDLs against the schema
\* obtained by applying the statements in order returns no error and no statement.
SecondDiffYieldsNothing == Succeeded /\ (\A i \in 1..Len(ddls) : Executable(CurrentSchema, ddls[i])) => DiffAgainst(Apply(CurrentSchema, ddls)).err = NoError /\ DiffAgainst(Apply(CurrentSchema, ddls)).ddls = <<>>

\* The desired list consists of CREATE TABLE and CREATE VIEW statements only.
CreateOnly == \A i \in 1..Len(desiredDDLs) : desiredDDLs[i].kind \in {"CreateTable", "View"}

\* C3 as stated (CREATE-only monotonicity): with no current DDLs and a desired list of CREATE TABLE
\* and CREATE VIEW statements only, the output is exactly their original texts in desired order.
CreateOnlyIsVerbatim == pc = "done" /\ currentDDLs = <<>> /\ CreateOnly => ddls = Statements(desiredDDLs)

\* C3 amended: the same, for a desired list that creates no table twice and no view twice; such a diff
\* also returns no error.
CreateOnlyDistinctIsVerbatim == pc = "done" /\ currentDDLs = <<>> /\ CreateOnly /\ UniqueNames(desiredDDLs) => err = NoError /\ ddls = Statements(desiredDDLs)

\* A diff from an empty current schema that created a table and a view.
CreateOnlyReached == Succeeded /\ currentDDLs = <<>> /\ Len(desiredDDLs) = MaxDesired /\ UniqueNames(desiredDDLs) /\ (\E i, j \in 1..Len(desiredDDLs) : desiredDDLs[i].kind = "CreateTable" /\ desiredDDLs[j].kind = "View") /\ ddls = Statements(desiredDDLs)

\* C4 (failure semantics): a diff that ends with an error returns no statement.
ErrorReturnsNothing == pc = "done" /\ err # NoError => ddls = <<>>

\* The step of the walk that examines the statement ddl.
Examines(ddl) == pc = "walk" /\ desiredDDLs' = Append(desiredDDLs, ddl)

\* The desired table already has an index of the name the statement ddl creates.
RepeatsIndex(ddl) == ddl.kind \in {"CreateIndex", "AddIndex"} /\ findTableByName(desiredTables, ddl.tableName) # Nil /\ \E i \in 1..Len(findTableByName(desiredTables, ddl.tableName).indexes) : findTableByName(desiredTables, ddl.tableName).indexes[i].name = ddl.index.name

\* C6 (duplicate index): a desired CREATE INDEX or ADD INDEX that names an index the desired table
\* already has ends the diff with the duplicate-index error, which quotes the statement, and the
\* diff returns no statement.
DuplicateIndexFailsEmpty == [][\A ddl \in Pool(scn) : Examines(ddl) /\ RepeatsIndex(ddl) => pc' = "done" /\ err' = "index '" \o ddl.index.name \o "' is doubly created against table '" \o Str(ddl.tableName) \o "': '" \o ddl.statement \o "'" /\ ddls' = <<>>]_vars

DropConstraint(tableName, constraintName) == "ALTER TABLE " \o escapeTableName(tableName) \o " DROP CONSTRAINT " \o escapeSQLName(constraintName)

DropColumn(tableName, columnName) == "ALTER TABLE " \o escapeTableName(tableName) \o " DROP COLUMN " \o escapeSQLName(columnName)

HasNamedDefault(column) == column.defaultDef # Nil /\ column.defaultDef.constraintName # ""

\* The column at index c of a current table is one its desired table does not have.
ObsoleteColumn(table, c) == findTableByName(desiredTables, table.name) # Nil /\ \A k \in 1..Len(findTableByName(desiredTables, table.name).columns) : findTableByName(desiredTables, table.name).columns[k].name # table.columns[c].name

\* What the output holds for an obsolete column.
DefaultConstraintNames == {"df"}

\* What the output holds for an obsolete column.
ColumnDropped(table, column) == IF HasNamedDefault(column) THEN \E i \in 1..(Len(ddls) - 1) : ddls[i] = DropConstraint(table.name, column.defaultDef.constraintName) /\ ddls[i + 1] = DropColumn(table.name, column.name) ELSE Count(ddls, DropColumn(table.name, column.name)) > 0 /\ \A i \in 2..Len(ddls) : ddls[i] = DropColumn(table.name, column.name) => \A n \in DefaultConstraintNames \cup {""} : ddls[i - 1] # DropConstraint(table.name, n)

\* C7 (default-constraint drop ordering): under MSSQL, the output of a successful diff holds, for
\* every current column that the desired table lacks and whose default has a constraint name, the
\* DROP CONSTRAINT of that name immediately followed by the DROP COLUMN; the DROP COLUMN of
\* such a column without a named default constraint follows no DROP CONSTRAINT of a default.
DefaultConstraintDropped == Succeeded /\ mode = GeneratorModeMssql => \A t \in 1..Len(CurrentSchema.tables) : \A c \in 1..Len(CurrentSchema.tables[t].columns) : ObsoleteColumn(CurrentSchema.tables[t], c) => ColumnDropped(CurrentSchema.tables[t], CurrentSchema.tables[t].columns[c])

\* C8 as stated (DROP TABLE before DROP VIEW): in the output of any diff every DROP TABLE comes
\* before every DROP VIEW.
DropTablesBeforeDropViews == pc = "done" => \A i, j \in 1..Len(ddls) : IsDropView(ddls[i]) /\ IsDropTable(ddls[j]) => j < i

\* C8 amended: every DROP TABLE comes before every DROP VIEW of a view that the desired DDLs do
\* not declare; the DROP VIEW that replaces a changed view under SQLite and MSSQL is emitted
\* where the desired statement stands and may precede a DROP TABLE.
DropTablesBeforeObsoleteViewDrops == pc = "done" => \A i, j \in 1..Len(ddls) : \A n \in ViewNames : ddls[i] = "DROP VIEW " \o escapeTableName(n) /\ IsDropTable(ddls[j]) /\ ~containsString(convertViewNames(desiredViews), n) => j < i

\* A diff that dropped a table and then an obsolete view.
ObsoleteViewDropReached == Succeeded /\ desiredViews = <<>> /\ \E i, j \in 1..Len(ddls) : i < j /\ IsDropTable(ddls[i]) /\ IsDropView(ddls[j])

EqualIgnoringCase(a, b) == Len(a) = Len(b) /\ \A i \in 1..Len(a) : a[i] = b[i] \/ \E k \in 1..Len(UpperLetters) : {a[i], b[i]} = {UpperLetters[k], LowerLetters[k]}

\* The current view of the name the statement ddl declares.
CurrentViewOf(ddl) == CHOOSE v \in {currentViews[i] : i \in 1..Len(currentViews)} : v.name = ddl.name

\* What the view diff is to emit for the desired CREATE VIEW ddl.
ExpectedForView(ddl) == IF \A i \in 1..Len(currentViews) : currentViews[i].name # ddl.name THEN <<ddl.statement>> ELSE IF EqualIgnoringCase(CurrentViewOf(ddl).definition, ddl.definition) THEN <<>> ELSE IF mode \in {GeneratorModeSQLite3, GeneratorModeMssql} THEN <<"DROP VIEW " \o escapeTableName(ddl.name), "CREATE VIEW " \o escapeTableName(ddl.name) \o " AS " \o Str(ddl.definition)>> ELSE <<"CREATE OR REPLACE VIEW " \o escapeTableName(ddl.name) \o " AS " \o Str(ddl.definition)>>

\* C9 (view diff): a desired CREATE VIEW, the first of its name in the desired list, adds to the
\* output its original statement when no current view has the name, nothing when the current
\* definition equals the desired one ignoring letter case, and otherwise DROP VIEW then
\* CREATE VIEW ... AS under SQLite and MSSQL, CREATE OR REPLACE VIEW ... AS under the others.
ViewDiffEmitted == [][\A ddl \in Pool(scn) : ddl.kind = "View" /\ Examines(ddl) /\ ~containsString(convertViewNames(desiredViews), ddl.name) => err' = NoError /\ ddls' = ddls \o ExpectedForView(ddl)]_vars

\* An MSSQL diff that replaced the view v, and a definition that differs from the current one in case only.
ViewReplacedReached == Succeeded /\ mode = GeneratorModeMssql /\ currentDDLs = <<ViewLower>> /\ desiredDDLs = <<ViewOther>> /\ ddls = <<"DROP VIEW [dbo].[v]", "CREATE VIEW [dbo].[v] AS t">>

\* The output and the simulated schema of a successful diff, for each table of the current schema.
TablesDroppedOnce == Succeeded => \A t \in 1..Len(CurrentSchema.tables) : IF findTableByName(desiredTables, CurrentSchema.tables[t].name) = Nil THEN Count(ddls, "DROP TABLE " \o escapeTableName(CurrentSchema.tables[t].name)) = 1 /\ findTableByName(currentTables, CurrentSchema.tables[t].name) = Nil ELSE Count(ddls, "DROP TABLE " \o escapeTableName(CurrentSchema.tables[t].name)) = 0

\* The cleanup of a table that the desired schema lacks adds the DROP TABLE and nothing else.
DropTableOnly == pc = "cleanup" /\ walkTables # <<>> /\ walkTables' = Tail(walkTables) /\ findTableByName(desiredTables, Head(walkTables).name) = Nil => ddls' = Append(ddls, "DROP TABLE " \o escapeTableName(Head(walkTables).name))

\* C10 (table drop): in a successful diff every current table without a desired table of its name
\* gets exactly one DROP TABLE of its escaped name and leaves the simulated current schema, its
\* cleanup emits nothing but that DROP TABLE, and a current table that the desired schema has
\* gets no DROP TABLE.
TableDropped == []TablesDroppedOnce /\ [][DropTableOnly]_vars

\* A diff that kept the table u and dropped the table dbo.p.
TableDropReached == Succeeded /\ currentDDLs = <<UsersPlain, PostsPlain>> /\ desiredDDLs = <<UsersPlain>> /\ findTableByName(currentTables, Posts) = Nil /\ \E i \in 1..Len(ddls) : IsDropTable(ddls[i])

\* ---- The inputs of a table diff: the parsed tables of a few small CREATE TABLE statements ----

Column(name) == [ZeroColumn EXCEPT !.name = name, !.typeName = "int"]

\* The columns as the parser numbers them: position is the 0-based index in the statement.
Positioned(columns) == [i \in 1..Len(columns) |-> [columns[i] EXCEPT !.position = i - 1]]

PrimaryOnId == [OnId("pk", TRUE) EXCEPT !.indexType = "primary key", !.primary = TRUE]

PadIndex == [optionName |-> "PAD_INDEX", value |-> [ZeroValue EXCEPT !.valueType = ValueTypeBool, !.raw = <<"t", "r", "u", "e">>]]

FillFactor == [optionName |-> "FILLFACTOR", value |-> [ZeroValue EXCEPT !.valueType = ValueTypeInt, !.raw = <<"1", "0">>, !.intVal = 10]]

Referencing(constraintName, onDelete, onUpdate) == [ForeignKeyTo(constraintName) EXCEPT !.onDelete = onDelete, !.onUpdate = onUpdate]

TableOf(name, columns, indexes, foreignKeys, policies) == [ZeroTable EXCEPT !.name = name, !.columns = Positioned(columns), !.indexes = indexes, !.foreignKeys = foreignKeys, !.policies = policies]

\* A default of the value type whose raw text is the characters.
DefaultOf(valueType, raw) == [constraintName |-> "", value |-> [ZeroValue EXCEPT !.valueType = valueType, !.raw = raw, !.strVal = Str(raw)]]

\* The defaults of a column: none, and short and long texts of a Float, a Str and a ValArg.
Defaults == {Nil, DefaultOf(ValueTypeFloat, <<"0", ".", "0">>), DefaultOf(ValueTypeFloat, <<"0", ".", "0", "0">>), DefaultOf(ValueTypeStr, <<"0", ".", "0">>), DefaultOf(ValueTypeStr, <<"0", ".", "0", "0">>), DefaultOf(ValueTypeValArg, <<"n", "u", "l", "l">>), DefaultOf(ValueTypeValArg, <<"n", "o", "w">>)}

TableScenarios == {"order", "increment", "keys", "references", "obsolete", "defaults"}

ColumnLists(scenario) == CASE scenario = "order" -> {<<Column("a")>>, <<Column("a"), Column("b")>>, <<Column("b"), Column("a")>>, <<Column("a"), Column("b"), Column("c")>>, <<Column("c"), Column("a"), Column("b")>>, <<[Column("a") EXCEPT !.typeName = "text"], Column("b")>>, <<[Column("a") EXCEPT !.defaultDef = DefaultX("")], Column("b")>>} [] scenario = "increment" -> {<<Id>>, <<[Id EXCEPT !.autoIncrement = TRUE]>>, <<[Id EXCEPT !.typeName = "bigint"]>>, <<Id, [Column("n") EXCEPT !.autoIncrement = TRUE]>>, <<Id, Column("n")>>} [] scenario = "keys" -> {<<Id>>, <<[IdKey EXCEPT !.notNull = "true"]>>, <<Id, [Column("uid") EXCEPT !.keyOption = ColumnKeyPrimary, !.notNull = "true"]>>} [] scenario = "references" -> {<<Id>>} [] scenario = "defaults" -> {<<[Column("a") EXCEPT !.defaultDef = d]>> : d \in Defaults} [] scenario = "obsolete" -> {<<Id>>, <<Id, Note("df")>>, <<Id, Note("")>>, <<[Id EXCEPT !.references = Posts]>>}

IndexLists(scenario) == CASE scenario = "increment" -> {<<>>, <<OnId("i", FALSE)>>, <<PrimaryOnId>>} [] scenario = "keys" -> {<<>>, <<OnId("i", FALSE)>>, <<OnId("i", TRUE)>>, <<PrimaryOnId>>, <<[OnId("i", TRUE) EXCEPT !.options = <<PadIndex>>]>>, <<[OnId("i", TRUE) EXCEPT !.options = <<PadIndex, FillFactor>>]>>} [] scenario = "obsolete" -> {<<>>, <<OnId("i", FALSE)>>, <<PrimaryOnId, OnId("i", FALSE)>>} [] OTHER -> {<<>>}

ForeignKeyLists(scenario) == CASE scenario = "references" -> {<<>>, <<Referencing("f", "", "")>>, <<Referencing("f", "CASCADE", "")>>, <<Referencing("f", "", "NO ACTION")>>, <<Referencing("", "", "")>>, <<Referencing("f", "", ""), Referencing("g", "", "")>>} [] scenario = "obsolete" -> {<<>>, <<Referencing("f", "", "")>>} [] OTHER -> {<<>>}

PolicyLists(scenario) == IF scenario = "obsolete" THEN {<<>>, <<PolicyFor(<<<<"a">>>>)>>} ELSE {<<>>}

TableNamesOf(scenario) == IF scenario = "keys" THEN {Users, Posts} ELSE {Users}

\* The tables of a scenario that bear the name.
Tables(scenario, name) == {TableOf(name, columns, indexes, foreignKeys, policies) : columns \in ColumnLists(scenario), indexes \in IndexLists(scenario), foreignKeys \in ForeignKeyLists(scenario), policies \in PolicyLists(scenario)}

\* The CREATE TABLE statement of a table; its text is the name and the column names, which is all the diff prints of it.
CreateTableFor(table) == [kind |-> "CreateTable", statement |-> "CREATE TABLE " \o Str(table.name) \o " (" \o Join(convertColumnsToColumnNames(table.columns), ", ") \o ")", table |-> table]

\* ---- The run of GenerateIdempotentDDLs on one CREATE TABLE, one phase of the table diff at a time ----

\* desiredDDLs holds the one statement; the table it finds in g.currentTables is the first.
DesiredCreate == desiredDDLs[1]

CurrentTable == currentTables[1]

TableInit ==
    /\ scn \in TableScenarios
    /\ mode \in Modes
    /\ desiredDDLs \in {<<CreateTableFor(t)>> : t \in UNION {Tables(scn, n) : n \in TableNamesOf(scn)}}
    /\ currentDDLs \in {<<>>} \cup {<<CreateTableFor(t)>> : t \in Tables(scn, desiredDDLs[1].table.name)}
    /\ desiredTables = <<>>
    /\ currentTables = convertDDLsToTables(currentDDLs).tables
    /\ desiredViews = <<>>
    /\ currentViews = <<>>
    /\ ddls = <<>>
    /\ err = NoError
    /\ pc = "table"
    /\ walkTables = <<>>

\* "Table not found, create table."
CreateAbsent ==
    /\ pc = "table"
    /\ findTableIndex(currentTables, DesiredCreate.table.name) = 0
    /\ ddls' = Append(ddls, DesiredCreate.statement)
    /\ currentTables' = Append(currentTables, DesiredCreate.table)
    /\ desiredTables' = Append(desiredTables, DesiredCreate.table)
    /\ pc' = "dropForeignKeys"
    /\ UNCHANGED <<mode, currentDDLs, desiredDDLs, desiredViews, currentViews, err, walkTables, scn>>

\* One phase of generateDDLsForCreateTable.  Its statements join those of the phases before; an
\* error ends the diff, and generateDDLs returns what it had gathered before this statement: nothing.
TablePhase(from, to, result) ==
    /\ pc = from
    /\ err' = result.err
    /\ ddls' = IF result.err = NoError THEN ddls \o result.ddls ELSE <<>>
    /\ pc' = IF result.err = NoError THEN to ELSE "done"
    /\ UNCHANGED <<mode, currentDDLs, desiredDDLs, desiredTables, currentTables, desiredViews, currentViews, walkTables, scn>>

DiffColumns == pc = "table" /\ findTableIndex(currentTables, DesiredCreate.table.name) # 0 /\ TablePhase("table", "removeAutoIncrement", ExamineColumns(CurrentTable, DesiredCreate))

DiffRemoveAutoIncrement == pc = "removeAutoIncrement" /\ TablePhase("removeAutoIncrement", "primaryKey", RemoveAutoIncrements(CurrentTable, DesiredCreate))

DiffPrimaryKey == pc = "primaryKey" /\ TablePhase("primaryKey", "indexes", ExaminePrimaryKey(CurrentTable, DesiredCreate))

DiffIndexes == pc = "indexes" /\ TablePhase("indexes", "addAutoIncrement", ExamineIndexes(CurrentTable, DesiredCreate))

DiffAddAutoIncrement == pc = "addAutoIncrement" /\ TablePhase("addAutoIncrement", "foreignKeys", AddAutoIncrements(CurrentTable, DesiredCreate))

DiffForeignKeys == pc = "foreignKeys" /\ TablePhase("foreignKeys", "merge", ExamineForeignKeys(CurrentTable, DesiredCreate))

\* mergeTable(currentTable, desired.table) and the append to g.desiredTables.
MergeCurrent ==
    /\ pc = "merge"
    /\ currentTables' = [currentTables EXCEPT ![1] = mergeTable(CurrentTable, DesiredCreate.table)]
    /\ desiredTables' = Append(desiredTables, DesiredCreate.table)
    /\ pc' = "dropForeignKeys"
    /\ UNCHANGED <<mode, currentDDLs, desiredDDLs, desiredViews, currentViews, ddls, err, walkTables, scn>>

\* One step of the cleanup of the table, which is still in g.desiredTables.
CleanupPhase(from, to, stmts) ==
    /\ pc = from
    /\ ddls' = ddls \o stmts
    /\ pc' = to
    /\ UNCHANGED <<mode, currentDDLs, desiredDDLs, desiredTables, currentTables, desiredViews, currentViews, err, walkTables, scn>>

\* The cleanup that checks the columns where it should check the foreign keys.
DropObsoleteColumnsFirst == pc = "dropForeignKeys" /\ CleanupPhase("dropForeignKeys", "dropIndexes", CleanupColumns(CurrentTable, desiredTables[1]))

DropObsoleteForeignKeys == pc = "dropForeignKeys" /\ CleanupPhase("dropForeignKeys", "dropIndexes", CleanupForeignKeys(CurrentTable, desiredTables[1]))

\* "Check indexes": the error of an index is returned with the statements gathered so far.
IndexesDropped(result) ==
    /\ pc = "dropIndexes"
    /\ err' = result.err
    /\ ddls' = IF Crashed(result.err) THEN <<>> ELSE ddls \o result.ddls
    /\ pc' = IF result.err = NoError THEN "dropColumns" ELSE "done"
    /\ UNCHANGED <<mode, currentDDLs, desiredDDLs, desiredTables, currentTables, desiredViews, currentViews, walkTables, scn>>

DropObsoleteIndexes == pc = "dropIndexes" /\ IndexesDropped(CleanupIndexes(CurrentTable, desiredTables[1]))

DropObsoleteColumns == pc = "dropColumns" /\ CleanupPhase("dropColumns", "dropPolicies", CleanupColumns(CurrentTable, desiredTables[1]))

\* "Check policies", then the loop over g.currentViews, which is empty, and the return.
DropObsoletePolicies == pc = "dropPolicies" /\ CleanupPhase("dropPolicies", "done", CleanupPolicies(CurrentTable, desiredTables[1]))

TableNext ==
    \/ CreateAbsent
    \/ DiffColumns
    \/ DiffRemoveAutoIncrement
    \/ DiffPrimaryKey
    \/ DiffIndexes
    \/ DiffAddAutoIncrement
    \/ DiffForeignKeys
    \/ MergeCurrent
    \/ DropObsoleteForeignKeys
    \/ DropObsoleteIndexes
    \/ DropObsoleteColumns
    \/ DropObsoletePolicies

TableSpec == TableInit /\ [][TableNext]_vars

\* ---- Properties of the table diff ----

\* The table diff of an existing table has just run the phase at position p without failing.
PhaseDone(p) == pc = p /\ pc' # p /\ err' = NoError

\* The statements the step has added to the output.
Emitted == SubSeq(ddls', Len(ddls) + 1, Len(ddls'))

\* ON UPDATE / ON DELETE as compared: the empty action is NO ACTION under Postgres and MSSQL only.
NormalAction(action) == IF mode \in {GeneratorModePostgres, GeneratorModeMssql} /\ action = "" THEN "NO ACTION" ELSE action

ActionsDiffer(currentForeignKey, desiredForeignKey) == NormalAction(currentForeignKey.onUpdate) # NormalAction(desiredForeignKey.onUpdate) \/ NormalAction(currentForeignKey.onDelete) # NormalAction(desiredForeignKey.onDelete)

AddForeignKeyText(desiredForeignKey) == "ALTER TABLE " \o escapeTableName(DesiredCreate.table.name) \o " ADD " \o generateForeignKeyDefinition(desiredForeignKey)

DropForeignKeyText(constraintName) == IF mode = GeneratorModeMysql THEN <<"ALTER TABLE " \o escapeTableName(DesiredCreate.table.name) \o " DROP FOREIGN KEY " \o escapeSQLName(constraintName)>> ELSE IF mode \in {GeneratorModePostgres, GeneratorModeMssql} THEN <<"ALTER TABLE " \o escapeTableName(DesiredCreate.table.name) \o " DROP CONSTRAINT " \o escapeSQLName(constraintName)>> ELSE <<>>

CurrentForeignKeysNamed(constraintName) == SelectSeq(CurrentTable.foreignKeys, LAMBDA k : k.constraintName = constraintName)

ExpectedForForeignKey(desiredForeignKey) == IF CurrentForeignKeysNamed(desiredForeignKey.constraintName) = <<>> THEN <<AddForeignKeyText(desiredForeignKey)>> ELSE IF ActionsDiffer(CurrentForeignKeysNamed(desiredForeignKey.constraintName)[1], desiredForeignKey) THEN Append(DropForeignKeyText(desiredForeignKey.constraintName), AddForeignKeyText(desiredForeignKey)) ELSE <<>>

ExpectedForForeignKeys == Concat([i \in 1..Len(DesiredCreate.table.foreignKeys) |-> ExpectedForForeignKey(DesiredCreate.table.foreignKeys[i])])

\* The number of statements when every changed foreign key is dropped and added: two for each, one for each new one.
DropAndAddCount == Len(SelectSeq(DesiredCreate.table.foreignKeys, LAMBDA k : CurrentForeignKeysNamed(k.constraintName) = <<>>)) + 2 * Len(SelectSeq(DesiredCreate.table.foreignKeys, LAMBDA k : CurrentForeignKeysNamed(k.constraintName) # <<>> /\ ActionsDiffer(CurrentForeignKeysNamed(k.constraintName)[1], k)))

\* C11 as stated: in every dialect the foreign-key phase emits ADD for a foreign key the current table
\* lacks, a drop followed by ADD for one whose normalized ON UPDATE or ON DELETE differs, and nothing otherwise.
ForeignKeyDiffDropsAndAdds == [][PhaseDone("foreignKeys") => Emitted = ExpectedForForeignKeys /\ Len(Emitted) = DropAndAddCount]_vars

\* C11: the foreign-key phase emits, for each desired foreign key in order, ADD when the current table
\* has none of that name; when it has one whose normalized ON UPDATE or ON DELETE differs, DROP FOREIGN
\* KEY (MySQL) or DROP CONSTRAINT (Postgres, MSSQL) and then ADD, and under SQLite the ADD alone;
\* nothing otherwise.
ForeignKeyDiffEmitted == [][PhaseDone("foreignKeys") => Emitted = ExpectedForForeignKeys]_vars

\* A changed foreign key has been dropped and added again.
ForeignKeyReplacedReached == pc = "merge" /\ mode = GeneratorModeMssql /\ Len(DesiredCreate.table.foreignKeys) = 1 /\ Len(CurrentTable.foreignKeys) = 1 /\ ddls = <<"ALTER TABLE [dbo].[u] DROP CONSTRAINT [f]", AddForeignKeyText(DesiredCreate.table.foreignKeys[1])>>

\* generate_drop_index as the dialects write it; SQLite has no case and gets the empty text.
DropIndexText(indexName) == CASE mode = GeneratorModeMysql -> "ALTER TABLE " \o escapeTableName(DesiredCreate.table.name) \o " DROP INDEX " \o escapeSQLName(indexName) [] mode = GeneratorModePostgres -> "DROP INDEX " \o escapeSQLName(indexName) [] mode = GeneratorModeMssql -> "DROP INDEX " \o escapeSQLName(indexName) \o " ON " \o escapeTableName(DesiredCreate.table.name) [] OTHER -> ""

CurrentIndexesNamed(indexName) == SelectSeq(CurrentTable.indexes, LAMBDA x : x.name = indexName)

ExpectedForIndex(desiredIndex) == IF desiredIndex.primary THEN <<>> ELSE IF CurrentIndexesNamed(desiredIndex.name) = <<>> THEN <<generateAddIndex(DesiredCreate.table.name, desiredIndex)>> ELSE IF ~areSameIndexes(CurrentIndexesNamed(desiredIndex.name)[1], desiredIndex) THEN <<DropIndexText(desiredIndex.name), generateAddIndex(DesiredCreate.table.name, desiredIndex)>> ELSE <<>>

ExpectedForIndexes == Concat([i \in 1..Len(DesiredCreate.table.indexes) |-> ExpectedForIndex(DesiredCreate.table.indexes[i])])

\* C12: the index phase emits, for each desired index that is not primary, the add-index statement
\* when the current table has no index of that name, a drop-index statement immediately followed by
\* the add-index statement when it has one that is not areSameIndexes, and nothing when it has one
\* that is; primary indexes are skipped.  Every statement emitted is a statement: it is not empty.
IndexDiffEmitted == [][PhaseDone("indexes") => Emitted = ExpectedForIndexes /\ \A k \in 1..Len(Emitted) : Emitted[k] # ""]_vars

\* The column phase of the table diff has just run without failing.
ColumnsDone == pc = "table" /\ pc' = "removeAutoIncrement"

DesiredColumns == DesiredCreate.table.columns

IsNewColumn(i) == \A k \in 1..Len(CurrentTable.columns) : CurrentTable.columns[k].name # DesiredColumns[i].name

\* FIRST for the first desired column, AFTER the desired column before it otherwise.
Placement(i) == IF i = 1 THEN " FIRST" ELSE " AFTER " \o escapeSQLName(DesiredColumns[i - 1].name)

AddColumnText(i) == "ALTER TABLE " \o escapeTableName(DesiredCreate.table.name) \o (IF mode = GeneratorModeMssql THEN " ADD " ELSE " ADD COLUMN ") \o generateColumnDefinition([DesiredColumns[i] EXCEPT !.autoIncrement = FALSE], TRUE).def \o (IF mode = GeneratorModeMysql THEN Placement(i) ELSE "")

\* The statements of the column phase: the one ADD of each new column, and whatever the change rules give for the others.
ExpectedWithAddedColumns == Concat([i \in 1..Len(DesiredColumns) |-> IF IsNewColumn(i) THEN <<AddColumnText(i)>> ELSE ExamineColumn(CurrentTable, DesiredCreate, i).ddls])

\* C13: in the column phase each desired column whose name the current table lacks yields exactly one
\* statement, ALTER TABLE <t> ADD <definition> under MSSQL and ALTER TABLE <t> ADD COLUMN <definition>
\* elsewhere, ending under MySQL alone with FIRST (first desired column) or AFTER <the desired column
\* before it>; a column both tables have yields no ADD statement.
ColumnAdded == [][ColumnsDone => Emitted = ExpectedWithAddedColumns /\ \A i \in 1..Len(DesiredColumns) : ~IsNewColumn(i) => \A k \in 1..Len(Emitted) : Emitted[k] # AddColumnText(i)]_vars

\* A third column has been added after the two the table had.
ColumnAddedReached == pc = "removeAutoIncrement" /\ mode = GeneratorModeMysql /\ Len(CurrentTable.columns) = 2 /\ ddls = <<"ALTER TABLE ~u~ ADD COLUMN ~c~ int AFTER ~b~">>

\* The index step of the cleanup has just run.
IndexCleanupDone == pc = "dropIndexes" /\ pc' # "dropIndexes"

DesiredPrimaryColumns == SelectSeq(desiredTables[1].columns, LAMBDA c : c.keyOption = ColumnKeyPrimary)

IsObsoleteIndex(index) == ~containsString(convertIndexesToIndexNames(desiredTables[1].indexes), index.name) /\ ~containsString(convertForeignKeysToIndexNames(desiredTables[1].foreignKeys), index.name)

\* DROP CONSTRAINT when no desired column is the primary key, and when the one that is differs from the index's first column.
ExpectedForPrimaryIndex(index) == IF DesiredPrimaryColumns = <<>> \/ DesiredPrimaryColumns[1].name # index.columns[1].column THEN <<"ALTER TABLE " \o escapeTableName(CurrentTable.name) \o " DROP CONSTRAINT " \o escapeSQLName(index.name)>> ELSE <<>>

ExpectedForObsoleteIndexes == Concat([i \in 1..Len(CurrentTable.indexes) |-> IF ~IsObsoleteIndex(CurrentTable.indexes[i]) THEN <<>> ELSE IF CurrentTable.indexes[i].primary THEN ExpectedForPrimaryIndex(CurrentTable.indexes[i]) ELSE generateDDLsForAbsentIndex(CurrentTable.indexes[i], CurrentTable, desiredTables[1]).ddls])

\* C14: under MSSQL the cleanup emits ALTER TABLE <t> DROP CONSTRAINT <index name> for an obsolete
\* primary index when no desired column has key option Primary and when the desired Primary column
\* differs from the index's first column, and nothing when it is the index's first column.
ObsoletePrimaryIndexDropped == [][IndexCleanupDone /\ mode = GeneratorModeMssql => Emitted = ExpectedForObsoleteIndexes]_vars

\* The primary-key phase of the table diff has just run, or has failed.
PrimaryKeyPhaseDone == pc = "primaryKey" /\ pc' # "primaryKey"

\* The derived primary key: the first primary index, else PRIMARY over the Primary columns in column order, else none.
DerivedPrimaryKey(table) == IF SelectSeq(table.indexes, LAMBDA x : x.primary) # <<>> THEN SelectSeq(table.indexes, LAMBDA x : x.primary)[1] ELSE IF SelectSeq(table.columns, LAMBDA c : c.keyOption = ColumnKeyPrimary) # <<>> THEN [ZeroIndex EXCEPT !.name = "PRIMARY", !.indexType = "primary key", !.columns = [i \in 1..Len(SelectSeq(table.columns, LAMBDA c : c.keyOption = ColumnKeyPrimary)) |-> [column |-> SelectSeq(table.columns, LAMBDA c : c.keyOption = ColumnKeyPrimary)[i].name, length |-> Nil]], !.primary = TRUE, !.unique = TRUE, !.clustered = TRUE] ELSE Nil

\* The table name without its schema: what follows the first "." when there is one.
RECURSIVE WithoutSchema(_)
WithoutSchema(name) == IF \A i \in 1..Len(name) : name[i] # "." THEN name ELSE IF Head(name) = "." THEN Tail(name) ELSE WithoutSchema(Tail(name))

ExpectedPrimaryKeyDrop == IF DerivedPrimaryKey(CurrentTable) = Nil THEN <<>> ELSE IF mode = GeneratorModeMysql THEN <<"ALTER TABLE " \o escapeTableName(DesiredCreate.table.name) \o " DROP PRIMARY KEY">> ELSE IF mode = GeneratorModePostgres THEN <<"ALTER TABLE " \o escapeTableName(DesiredCreate.table.name) \o " DROP CONSTRAINT \"" \o Str(WithoutSchema(DesiredCreate.table.name)) \o "_pkey\"">> ELSE <<>>

ExpectedPrimaryKeyAdd == IF DerivedPrimaryKey(DesiredCreate.table) = Nil THEN <<>> ELSE <<generateAddIndex(DesiredCreate.table.name, DerivedPrimaryKey(DesiredCreate.table))>>

ExpectedForPrimaryKey == IF areSamePrimaryKeys(DerivedPrimaryKey(CurrentTable), DerivedPrimaryKey(DesiredCreate.table)) THEN <<>> ELSE ExpectedPrimaryKeyDrop \o ExpectedPrimaryKeyAdd

\* C15: whatever the table name, schema-qualified or not, the primary-key phase emits nothing when
\* the derived primary keys of the two tables are the same; when they differ it emits, if the current
\* table has one, DROP PRIMARY KEY (MySQL) or DROP CONSTRAINT "<table-without-schema>_pkey" (Postgres)
\* and nothing under MSSQL and SQLite, and then, if the desired table has one, its add-index statement.
PrimaryKeyDiffEmitted == [][PrimaryKeyPhaseDone => err' = NoError /\ Emitted = ExpectedForPrimaryKey]_vars

\* mergeTable has just run on the table of the simulated current schema.
Merged == pc = "merge" /\ pc' # "merge"

\* The elements of from whose name no element of into bears, in order.
NotYetIn(into, from) == SelectSeq(from, LAMBDA x : \A k \in 1..Len(into) : into[k].name # x.name)

NamedOnce(elements) == \A i, j \in 1..Len(elements) : elements[i].name = elements[j].name => i = j

\* C16: mergeTable appends to the current table exactly the desired columns and indexes whose name it
\* does not have yet, so that afterwards the table holds each column name and each index name at
\* most once and holds every desired column.
MergeAppendsMissing == [][Merged => /\ currentTables'[1].columns = CurrentTable.columns \o NotYetIn(CurrentTable.columns, DesiredColumns)
                                    /\ currentTables'[1].indexes = CurrentTable.indexes \o NotYetIn(CurrentTable.indexes, DesiredCreate.table.indexes)
                                    /\ NamedOnce(currentTables'[1].columns)
                                    /\ NamedOnce(currentTables'[1].indexes)
                                    /\ \A i \in 1..Len(DesiredColumns) : containsString(convertColumnsToColumnNames(currentTables'[1].columns), DesiredColumns[i].name)]_vars

\* CHANGE COLUMN <name> <definition>, with and without a position clause.
ChangeColumnTexts(name, column) == {"ALTER TABLE " \o escapeTableName(DesiredCreate.table.name) \o " CHANGE COLUMN " \o escapeSQLName(name) \o " " \o generateColumnDefinition(column, FALSE).def \o place : place \in {""} \cup {Placement(i) : i \in 1..Len(DesiredColumns)}}

DesiredColumnsNamed(name) == SelectSeq(DesiredColumns, LAMBDA c : c.name = name)

CurrentColumnsNamed(name) == SelectSeq(CurrentTable.columns, LAMBDA c : c.name = name)

\* The current columns that have AUTO_INCREMENT and whose desired counterpart is missing or lacks it.
LosingAutoIncrement == {c \in {CurrentTable.columns[k] : k \in 1..Len(CurrentTable.columns)} : c.autoIncrement /\ (DesiredColumnsNamed(c.name) = <<>> \/ ~DesiredColumnsNamed(c.name)[1].autoIncrement)}

\* The desired columns that have AUTO_INCREMENT and whose current counterpart is missing or lacks it.
GainingAutoIncrement == {i \in 1..Len(DesiredColumns) : DesiredColumns[i].autoIncrement /\ (CurrentColumnsNamed(DesiredColumns[i].name) = <<>> \/ ~CurrentColumnsNamed(DesiredColumns[i].name)[1].autoIncrement)}

\* The statements that take AUTO_INCREMENT away from a current column: the column, as it is or as desired, rendered without it.
RemovingAutoIncrement == UNION {UNION {ChangeColumnTexts(c.name, [x EXCEPT !.autoIncrement = FALSE]) : x \in {c} \cup {DesiredColumnsNamed(c.name)[k] : k \in 1..Len(DesiredColumnsNamed(c.name))}} : c \in LosingAutoIncrement}

\* The statements that render AUTO_INCREMENT for a column that gains it: by CHANGE COLUMN, and by ADD COLUMN.
AddingAutoIncrement == UNION {ChangeColumnTexts(DesiredColumns[i].name, DesiredColumns[i]) : i \in GainingAutoIncrement}

AddingColumnWithAutoIncrement == UNION {{"ALTER TABLE " \o escapeTableName(DesiredCreate.table.name) \o " ADD COLUMN " \o generateColumnDefinition(DesiredColumns[i], TRUE).def \o place : place \in {"", Placement(i)}} : i \in GainingAutoIncrement}

KeyAdds == (IF DerivedPrimaryKey(DesiredCreate.table) = Nil THEN {} ELSE {generateAddIndex(DesiredCreate.table.name, DerivedPrimaryKey(DesiredCreate.table))}) \cup {generateAddIndex(DesiredCreate.table.name, DesiredCreate.table.indexes[k]) : k \in 1..Len(DesiredCreate.table.indexes)}

KeyDrops == {"ALTER TABLE " \o escapeTableName(DesiredCreate.table.name) \o " DROP PRIMARY KEY"} \cup {DropIndexText(DesiredCreate.table.indexes[k].name) : k \in 1..Len(DesiredCreate.table.indexes)}

DesiredTable == desiredTables[1]

Obsolete(current, desiredNames) == {x \in {current[k] : k \in 1..Len(current)} : x \notin desiredNames}

ObsoleteForeignKeyDrops == {"ALTER TABLE " \o escapeTableName(CurrentTable.name) \o (IF mode = GeneratorModeMysql THEN " DROP FOREIGN KEY " ELSE " DROP CONSTRAINT ") \o escapeSQLName(n) : n \in Obsolete(convertForeignKeysToConstraintNames(CurrentTable.foreignKeys), {DesiredTable.foreignKeys[k].constraintName : k \in 1..Len(DesiredTable.foreignKeys)})}

ObsoleteIndexDrops == UNION {{DropIndexText(n), "ALTER TABLE " \o escapeTableName(CurrentTable.name) \o " DROP CONSTRAINT " \o escapeSQLName(n)} : n \in Obsolete(convertIndexesToIndexNames(CurrentTable.indexes), {DesiredTable.indexes[k].name : k \in 1..Len(DesiredTable.indexes)})}

ObsoleteColumnNames == Obsolete(convertColumnsToColumnNames(CurrentTable.columns), {DesiredTable.columns[k].name : k \in 1..Len(DesiredTable.columns)})

DropColumnText(columnName) == "ALTER TABLE " \o escapeTableName(CurrentTable.name) \o " DROP COLUMN " \o escapeSQLName(columnName)

\* The drops of the default constraints of the obsolete columns.
ObsoleteDefaultDrops == {"ALTER TABLE " \o escapeTableName(CurrentTable.name) \o " DROP CONSTRAINT " \o escapeSQLName(c.defaultDef.constraintName) : c \in {x \in {CurrentTable.columns[k] : k \in 1..Len(CurrentTable.columns)} : x.name \in ObsoleteColumnNames /\ x.defaultDef # Nil}}

ObsoletePolicyDrops == {"DROP POLICY " \o escapeSQLName(n) \o " ON " \o escapeTableName(CurrentTable.name) : n \in Obsolete(convertPolicyNames(CurrentTable.policies), {DesiredTable.policies[k].name : k \in 1..Len(DesiredTable.policies)})}

\* The place of a statement in the order of the run: 0 for the walk of the desired list, then the four steps of the cleanup.
CleanupRank(statement) == IF statement \in ObsoleteForeignKeyDrops THEN 1 ELSE IF statement \in ObsoleteIndexDrops THEN 2 ELSE IF statement \in ObsoleteDefaultDrops \/ statement \in {DropColumnText(n) : n \in ObsoleteColumnNames} THEN 3 ELSE IF statement \in ObsoletePolicyDrops THEN 4 ELSE 0

\* C18: in the output of a successful run the cleanup statements of a table that is still desired
\* come in the order foreign-key drops, index and primary-key constraint drops, column drops, policy
\* drops, all of them after every statement of the walk of the desired list, and the drop of a
\* column's default constraint stands just before the drop of a column.
CleanupOrdered == pc = "done" /\ err = NoError =>
    /\ \A i, j \in 1..Len(ddls) : i < j => CleanupRank(ddls[i]) <= CleanupRank(ddls[j])
    /\ \A i \in 1..Len(ddls) : ddls[i] \in ObsoleteDefaultDrops => i < Len(ddls) /\ ddls[i + 1] \in {DropColumnText(n) : n \in ObsoleteColumnNames}

\* A run whose walk has added an index and whose cleanup has dropped a foreign key, a column with its default constraint, and a policy.
CleanupOrderReached == pc = "done" /\ err = NoError /\ mode = GeneratorModeMssql /\ Len(ddls) = 5 /\ CleanupRank(ddls[1]) = 0 /\ CleanupRank(ddls[2]) = 1 /\ ddls[3] \in ObsoleteDefaultDrops /\ ddls[4] = DropColumnText("note") /\ CleanupRank(ddls[5]) = 4

\* The current column of the name of the desired column at index i, and the desired column as the
\* column phase takes it: without AUTO_INCREMENT unless the current column has it.
CounterpartOf(i) == CurrentColumnsNamed(DesiredColumns[i].name)[1]

TakenAs(i) == IF CounterpartOf(i).autoIncrement THEN DesiredColumns[i] ELSE [DesiredColumns[i] EXCEPT !.autoIncrement = FALSE]

\* change_order: the column has moved up by more than the table has shrunk.
MovedUp(i) == CounterpartOf(i).position > DesiredColumns[i].position /\ CounterpartOf(i).position - DesiredColumns[i].position > Len(CurrentTable.columns) - Len(DesiredColumns)

ExpectedChangeColumn(i) == IF ~haveSameColumnDefinition(CounterpartOf(i), TakenAs(i)) \/ ~areSameDefaultValue(CounterpartOf(i).defaultDef, TakenAs(i).defaultDef) \/ MovedUp(i) THEN <<"ALTER TABLE " \o escapeTableName(DesiredCreate.table.name) \o " CHANGE COLUMN " \o escapeSQLName(CounterpartOf(i).name) \o " " \o generateColumnDefinition(TakenAs(i), FALSE).def \o (IF MovedUp(i) THEN Placement(i) ELSE "")>> ELSE <<>>

\* The statements of the column phase under MySQL: for a column the table has, the CHANGE COLUMN if any and then the ADD UNIQUE KEY if any.
ExpectedWithChangedColumns == Concat([i \in 1..Len(DesiredColumns) |-> IF IsNewColumn(i) THEN ExamineColumn(CurrentTable, DesiredCreate, i).ddls ELSE ExpectedChangeColumn(i) \o AddUniqueKeyMysql(CurrentTable, DesiredCreate, CounterpartOf(i), TakenAs(i)).ddls])

\* C19: under MySQL the column phase emits for a desired column that the current table has exactly
\* one ALTER TABLE <t> CHANGE COLUMN <current name> <definition> when the column definitions differ,
\* or the defaults differ, or change_order holds, where change_order is current.position >
\* desired.position and current.position - desired.position > number of current columns - number of
\* desired columns; none otherwise; the statement ends with FIRST or AFTER <the desired column
\* before> exactly when change_order holds.
ColumnChanged == [][ColumnsDone /\ mode = GeneratorModeMysql => Emitted = ExpectedWithChangedColumns]_vars

\* The second of two columns has been moved to the front.
ColumnMovedReached == pc = "removeAutoIncrement" /\ mode = GeneratorModeMysql /\ Len(CurrentTable.columns) = 2 /\ ddls = <<"ALTER TABLE ~u~ CHANGE COLUMN ~b~ ~b~ int FIRST">>

UnnamedForeignKeys == SelectSeq(DesiredCreate.table.foreignKeys, LAMBDA k : k.constraintName = "")

\* C20: a run whose desired CREATE TABLE carries a foreign key without a constraint name ends with
\* the missing-constraint-name error, whether a table of that name exists in current or not.
UnnamedForeignKeyRejected == pc = "done" /\ UnnamedForeignKeys # <<>> => err = "Foreign key without constraint symbol was found in table '" \o Str(DesiredCreate.table.name) \o "' (index name: '" \o UnnamedForeignKeys[1].indexName \o "', columns: [" \o Join(UnnamedForeignKeys[1].indexColumns, " ") \o "]). Specify the constraint symbol to identify the foreign key."

\* ---- Properties of the standalone statements ----

DesiredTablesNamed(name) == {k \in 1..Len(desiredTables) : desiredTables[k].name = name}

FirstDesiredTableNamed(name) == CHOOSE k \in DesiredTablesNamed(name) : \A l \in DesiredTablesNamed(name) : k <= l

\* The foreign key cannot be recorded: its table is not among the desired tables yet, or has a foreign key of that constraint name.
ForeignKeyRefused(ddl) == DesiredTablesNamed(ddl.tableName) = {} \/ \E i \in 1..Len(desiredTables[FirstDesiredTableNamed(ddl.tableName)].foreignKeys) : desiredTables[FirstDesiredTableNamed(ddl.tableName)].foreignKeys[i].constraintName = ddl.foreignKey.constraintName

\* C21: a desired ADD FOREIGN KEY adds no statement to the output and leaves the simulated current
\* schema and the desired views as they are; it either appends the foreign key to the foreign keys
\* of the named desired table, or fails, when that table is not desired yet or has a foreign key of
\* that constraint name already, and then leaves the desired tables as they are too.
ForeignKeyOnlyRecorded == [][\A ddl \in Pool(scn) : ddl.kind = "AddForeignKey" /\ Examines(ddl) =>
    /\ ddls' = ddls
    /\ currentTables' = currentTables /\ currentViews' = currentViews /\ desiredViews' = desiredViews
    /\ IF ForeignKeyRefused(ddl) THEN err' # NoError /\ desiredTables' = desiredTables ELSE err' = NoError /\ desiredTables' = [desiredTables EXCEPT ![FirstDesiredTableNamed(ddl.tableName)].foreignKeys = Append(@, ddl.foreignKey)]]_vars

\* A foreign key has been recorded on a table after a statement had been gathered.
ForeignKeyRecordedReached == pc = "walk" /\ Len(desiredDDLs) = 2 /\ desiredDDLs[2].kind = "AddForeignKey" /\ ddls # <<>> /\ Len(desiredTables) = 1 /\ desiredTables[1].foreignKeys = <<desiredDDLs[2].foreignKey>>

\* A foreign key of a constraint name the table has already has been refused.
ForeignKeyRefusedReached == pc = "done" /\ Len(desiredDDLs) = 2 /\ desiredDDLs[2].kind = "AddForeignKey" /\ Len(desiredTables) = 1 /\ desiredTables[1].foreignKeys # <<>> /\ err # NoError

CurrentTablesNamed(name) == {k \in 1..Len(currentTables) : currentTables[k].name = name}

FirstCurrentTableNamed(name) == CHOOSE k \in CurrentTablesNamed(name) : \A l \in CurrentTablesNamed(name) : k <= l

\* The indexes of the current table of the statement that bear the name of its index.
CurrentIndexesOf(ddl) == SelectSeq(currentTables[FirstCurrentTableNamed(ddl.tableName)].indexes, LAMBDA x : x.name = ddl.index.name)

\* The drop-index statement of the dialect.
DropIndexStatement(tableName, indexName) == CASE mode = GeneratorModeMysql -> "ALTER TABLE " \o escapeTableName(tableName) \o " DROP INDEX " \o escapeSQLName(indexName) [] mode = GeneratorModePostgres -> "DROP INDEX " \o escapeSQLName(indexName) [] mode = GeneratorModeMssql -> "DROP INDEX " \o escapeSQLName(indexName) \o " ON " \o escapeTableName(tableName) [] OTHER -> ""

ReplacedInPlace(indexes, desiredIndex) == [i \in 1..Len(indexes) |-> IF indexes[i].name = desiredIndex.name THEN desiredIndex ELSE indexes[i]]

\* The desired side refuses the statement: its table is not desired yet, or already has an index of the name.
IndexRefused(ddl) == DesiredTablesNamed(ddl.tableName) = {} \/ \E i \in 1..Len(desiredTables[FirstDesiredTableNamed(ddl.tableName)].indexes) : desiredTables[FirstDesiredTableNamed(ddl.tableName)].indexes[i].name = ddl.index.name

\* What the claim says of a standalone index statement whose table is in the simulated current schema.
IndexStatementDiffed(ddl) ==
    IF CurrentIndexesOf(ddl) = <<>> THEN err' = NoError /\ ddls' = Append(ddls, ddl.statement) /\ currentTables' = [currentTables EXCEPT ![FirstCurrentTableNamed(ddl.tableName)].indexes = Append(@, ddl.index)]
    ELSE IF ~areSameIndexes(CurrentIndexesOf(ddl)[1], ddl.index) THEN err' = NoError /\ DropIndexStatement(ddl.tableName, ddl.index.name) # "" /\ ddls' = ddls \o <<DropIndexStatement(ddl.tableName, ddl.index.name), ddl.statement>> /\ currentTables' = [currentTables EXCEPT ![FirstCurrentTableNamed(ddl.tableName)].indexes = ReplacedInPlace(@, ddl.index)]
    ELSE err' = NoError /\ ddls' = ddls /\ currentTables' = currentTables

\* C22: a standalone CREATE INDEX or ADD INDEX fails with the missing-table error when the simulated
\* current schema has no table of its name; otherwise it emits the original statement and appends the
\* index to the current table when the table has no index of that name; emits the dialect's
\* drop-index statement and then the original statement, and replaces the index in place, when the
\* table has one that is not areSameIndexes; and emits nothing and changes nothing when it has one that is.
\* Stated of the statements the desired side accepts.
IndexStatementHandled == [][\A ddl \in Pool(scn) : ddl.kind \in {"CreateIndex", "AddIndex"} /\ Examines(ddl) /\ ~IndexRefused(ddl) =>
    IF CurrentTablesNamed(ddl.tableName) = {} THEN err' = (IF ddl.kind = "CreateIndex" THEN "CREATE INDEX" ELSE "ALTER TABLE") \o " is performed for inexistent table '" \o Str(ddl.tableName) \o "': '" \o ddl.statement \o "'" ELSE IndexStatementDiffed(ddl)]_vars

\* ---- The invariants of a schema ----

ConstraintNamedOnce(foreignKeys) == \A i, j \in 1..Len(foreignKeys) : foreignKeys[i].constraintName = foreignKeys[j].constraintName => i = j

WellFormedTable(table) == NamedOnce(table.columns) /\ NamedOnce(table.indexes) /\ ConstraintNamedOnce(table.foreignKeys) /\ NamedOnce(table.policies) /\ \A i \in 1..Len(table.columns) : table.columns[i].position = i - 1

WellFormedSchema(tables, views) == NamedOnce(tables) /\ NamedOnce(views) /\ \A k \in 1..Len(tables) : WellFormedTable(tables[k])

\* The current DDLs are the dump of a well-formed schema; the desired statements walked so far
\* name each table and each view once and each table they create is well formed.
InputsWellFormed == /\ WellFormedSchema(convertDDLsToTables(currentDDLs).tables, convertDDLsToViews(currentDDLs))
                    /\ UniqueNames(desiredDDLs)
                    /\ \A i \in 1..Len(desiredDDLs) : desiredDDLs[i].kind = "CreateTable" => WellFormedTable(desiredDDLs[i].table)

\* C23: when the current and the desired inputs have unique names within their scopes and every
\* column's position is its index, then after every step of a diff that has not failed both
\* simulated schemas have unique table and view names, unique column, index, foreign-key and
\* policy names per table, and every column's position is its index.
SchemaInvariantsKept == InputsWellFormed /\ err = NoError => WellFormedSchema(currentTables, currentViews) /\ WellFormedSchema(desiredTables, desiredViews)

\* ---- Properties of the cleanup of one table ----

ForeignKeyCleanupDone == pc = "dropForeignKeys" /\ pc' = "dropIndexes"

\* A desired column still declares a reference to the table the foreign key refers to.
StillReferenced(foreignKey) == \E i \in 1..Len(DesiredTable.columns) : DesiredTable.columns[i].references = foreignKey.referenceName

\* What the cleanup is to emit for one current foreign key.
ExpectedForObsoleteForeignKey(foreignKey) ==
    IF \E k \in 1..Len(DesiredTable.foreignKeys) : DesiredTable.foreignKeys[k].constraintName = foreignKey.constraintName THEN <<>>
    ELSE IF mode = GeneratorModeMysql THEN <<"ALTER TABLE " \o escapeTableName(CurrentTable.name) \o " DROP FOREIGN KEY " \o escapeSQLName(foreignKey.constraintName)>>
    ELSE IF mode \in {GeneratorModePostgres, GeneratorModeMssql} /\ ~StillReferenced(foreignKey) THEN <<"ALTER TABLE " \o escapeTableName(CurrentTable.name) \o " DROP CONSTRAINT " \o escapeSQLName(foreignKey.constraintName)>>
    ELSE <<>>

\* C24: in the cleanup, each current foreign key whose constraint name the desired table lacks yields
\* ALTER TABLE <t> DROP FOREIGN KEY <name> under MySQL-like, ALTER TABLE <t> DROP CONSTRAINT <name>
\* under Postgres-like and MSSQL-like exactly when no desired column has a references value equal
\* to its reference name, and nothing under SQLite-like; a foreign key whose constraint name the
\* desired table has yields nothing.
ObsoleteForeignKeyDropped == [][ForeignKeyCleanupDone => Emitted = Concat([i \in 1..Len(CurrentTable.foreignKeys) |-> ExpectedForObsoleteForeignKey(CurrentTable.foreignKeys[i])])]_vars

\* Postgres-like keeps an obsolete foreign key that a desired column still declares inline.
ForeignKeyKeptForReferenceReached == pc = "dropIndexes" /\ mode = GeneratorModePostgres /\ CurrentTable.foreignKeys # <<>> /\ DesiredTable.foreignKeys = <<>> /\ StillReferenced(CurrentTable.foreignKeys[1]) /\ ddls = <<>>

\* MSSQL-like drops an obsolete foreign key no desired column declares.
ForeignKeyDroppedReached == pc = "dropIndexes" /\ mode = GeneratorModeMssql /\ CurrentTable.foreignKeys # <<>> /\ DesiredTable.foreignKeys = <<>> /\ ~StillReferenced(CurrentTable.foreignKeys[1]) /\ ddls = <<"ALTER TABLE [dbo].[u] DROP CONSTRAINT [f]">>

\* ---- Properties of the equality rules ----

FoldedRoles(policy) == {ToLower(policy.roles[i]) : i \in 1..Len(policy.roles)}

\* The two policies agree in scope, permissive, using and with-check after case-folding, and their roles are the same set of case-folded names.
EqualUnderCaseFolding(policyA, policyB) == ToLower(policyA.scope) = ToLower(policyB.scope) /\ ToLower(policyA.permissive) = ToLower(policyB.permissive) /\ ToLower(policyA.using) = ToLower(policyB.using) /\ ToLower(policyA.withCheck) = ToLower(policyB.withCheck) /\ FoldedRoles(policyA) = FoldedRoles(policyB)

\* The policy of the statement's name in the simulated current table of the statement.
CurrentPolicyOf(ddl) == findPolicyByName(currentTables[FirstCurrentTableNamed(ddl.tableName)].policies, ddl.policy.name)

\* C25: areSamePolicies holds of two policies exactly when their scope, permissive, using and
\* with-check are equal after case-folding and their roles are equal as sets of case-folded names,
\* whatever the order of the roles: a desired CREATE POLICY whose policy the current table has
\* under that name emits nothing exactly in that case.
PoliciesComparedFolded == [][\A ddl \in Pool(scn) : ddl.kind = "AddPolicy" /\ Examines(ddl) /\ err' = NoError /\ CurrentTablesNamed(ddl.tableName) # {} =>
    (CurrentPolicyOf(ddl) # Nil => (areSamePolicies(CurrentPolicyOf(ddl), ddl.policy) <=> EqualUnderCaseFolding(CurrentPolicyOf(ddl), ddl.policy)) /\ (Emitted = <<>> <=> EqualUnderCaseFolding(CurrentPolicyOf(ddl), ddl.policy)))]_vars

\* The value of a default, a ValArg null counting as none.
ValueOfDefault(defaultDef) == IF defaultDef = Nil \/ (defaultDef.value.valueType = ValueTypeValArg /\ defaultDef.value.raw = <<"n", "u", "l", "l">>) THEN Nil ELSE defaultDef.value

Truncated(raw, n) == IF Len(raw) > n THEN SubSeq(raw, 1, n) ELSE raw

\* Raw texts equal, the longer of the two cut to the length of the shorter when the desired value is a Float.
EqualTruncatingLonger(current, desired) == IF current = Nil \/ desired = Nil THEN current = Nil /\ desired = Nil ELSE IF desired.valueType = ValueTypeFloat THEN Truncated(current.raw, Len(desired.raw)) = Truncated(desired.raw, Len(current.raw)) ELSE current.raw = desired.raw

\* Raw texts equal, the current one cut to the length of the desired one when the desired value is a Float.
EqualTruncatingCurrent(current, desired) == IF current = Nil \/ desired = Nil THEN current = Nil /\ desired = Nil ELSE IF desired.valueType = ValueTypeFloat THEN Truncated(current.raw, Len(desired.raw)) = desired.raw ELSE current.raw = desired.raw

\* The desired table has one column, which the current table has with the same definition but perhaps another default.
LoneColumnAlike == Len(DesiredColumns) = 1 /\ Len(CurrentTable.columns) = 1 /\ ~IsNewColumn(1) /\ haveSameColumnDefinition(CounterpartOf(1), TakenAs(1)) /\ DesiredColumns[1].keyOption = ColumnKeyNone

\* The defaults of every column the two tables share are the same to the code exactly when Equal says so,
\* and under MySQL a lone column alike but for its default is changed exactly when Equal denies it.
DefaultsComparedBy(Equal(_, _)) ==
    /\ \A i \in 1..Len(DesiredColumns) : ~IsNewColumn(i) => (areSameDefaultValue(CounterpartOf(i).defaultDef, DesiredColumns[i].defaultDef) <=> Equal(ValueOfDefault(CounterpartOf(i).defaultDef), ValueOfDefault(DesiredColumns[i].defaultDef)))
    /\ mode = GeneratorModeMysql /\ LoneColumnAlike => (Emitted = <<>> <=> Equal(ValueOfDefault(CounterpartOf(1).defaultDef), ValueOfDefault(DesiredColumns[1].defaultDef)))

\* C26 as stated: two values are equal exactly when their raw texts are equal, for a Float after
\* the longer raw text has been cut to the length of the shorter one whichever side is the longer;
\* both absent is equal, one absent is unequal; a default that is a ValArg null counts as absent.
ValuesEqualTruncatingLonger == [][ColumnsDone => DefaultsComparedBy(EqualTruncatingLonger)]_vars

\* C26: two values are equal exactly when their raw texts are equal, after the current raw text has
\* been cut to the length of the desired one when the desired value is a Float and the current text
\* is the longer; a longer desired text is not cut. Both absent is equal, one absent is unequal; a
\* default that is a ValArg null counts as absent on either side.
ValuesEqualTruncatingCurrent == [][ColumnsDone => DefaultsComparedBy(EqualTruncatingCurrent)]_vars

\* A current default 0.00 has been taken for the desired Float default 0.0: nothing is emitted.
FloatDefaultTruncatedReached == pc = "removeAutoIncrement" /\ mode = GeneratorModeMysql /\ LoneColumnAlike /\ CurrentTable.columns[1].defaultDef = DefaultOf(ValueTypeFloat, <<"0", ".", "0", "0">>) /\ DesiredColumns[1].defaultDef = DefaultOf(ValueTypeFloat, <<"0", ".", "0">>) /\ ddls = <<>>

OptionCarried(index, option) == \E k \in 1..Len(index.options) : index.options[k].optionName = option.optionName /\ index.options[k].value.raw = option.value.raw

\* Every option of the index to has a matching option-value on the index from.
OptionsCarried(from, to) == \A k \in 1..Len(to.options) : OptionCarried(from, to.options[k])

AlikeButOptions(indexA, indexB) == indexA.unique = indexB.unique /\ indexA.primary = indexB.primary /\ [i \in 1..Len(indexA.columns) |-> indexA.columns[i].column] = [i \in 1..Len(indexB.columns) |-> indexB.columns[i].column] /\ indexA.where = indexB.where

\* The two indexes are alike and neither has an option the other lacks.
SameWithOptionsBothWays(current, desired) == AlikeButOptions(current, desired) /\ OptionsCarried(current, desired) /\ OptionsCarried(desired, current)

\* The two indexes are alike and the current one has every option of the desired one.
SameWithDesiredOptions(current, desired) == AlikeButOptions(current, desired) /\ OptionsCarried(current, desired)

\* The one desired index is not primary and the current table has an index of its name.
LoneIndexKept == Len(DesiredCreate.table.indexes) = 1 /\ ~DesiredCreate.table.indexes[1].primary /\ CurrentIndexesNamed(DesiredCreate.table.indexes[1].name) # <<>>

\* The index phase takes a desired index and the current index of its name for the same exactly
\* when Same says so, and emits nothing for a lone desired index exactly then.
IndexesComparedBy(Same(_, _)) ==
    /\ \A i \in 1..Len(DesiredCreate.table.indexes) : CurrentIndexesNamed(DesiredCreate.table.indexes[i].name) # <<>> => (areSameIndexes(CurrentIndexesNamed(DesiredCreate.table.indexes[i].name)[1], DesiredCreate.table.indexes[i]) <=> Same(CurrentIndexesNamed(DesiredCreate.table.indexes[i].name)[1], DesiredCreate.table.indexes[i]))
    /\ LoneIndexKept => (Emitted = <<>> <=> Same(CurrentIndexesNamed(DesiredCreate.table.indexes[1].name)[1], DesiredCreate.table.indexes[1]))

\* C27 as stated: areSameIndexes gives the same answer with its arguments exchanged, and an index
\* that lost an option (the current one has it, the desired one lacks it) is different just as one
\* that gained an option, so that both changes are a drop and an add.
IndexesComparedBothWays == [][PhaseDone("indexes") => /\ IndexesComparedBy(SameWithOptionsBothWays)
                                                      /\ \A i \in 1..Len(DesiredCreate.table.indexes) : \A k \in 1..Len(CurrentTable.indexes) : areSameIndexes(CurrentTable.indexes[k], DesiredCreate.table.indexes[i]) = areSameIndexes(DesiredCreate.table.indexes[i], CurrentTable.indexes[k])]_vars

\* C27: areSameIndexes(current, desired) looks for the options of the desired index on the current
\* one and not the other way round: an index that gained an option is different and is dropped and
\* added, an index that only lost an option is the same and nothing is emitted for it.
IndexesComparedByDesiredOptions == [][PhaseDone("indexes") => IndexesComparedBy(SameWithDesiredOptions)]_vars

\* The desired index has lost FILLFACTOR and the index phase has emitted nothing.
IndexOptionLostReached == pc = "addAutoIncrement" /\ LoneIndexKept /\ CurrentIndexesNamed("i")[1].options = <<PadIndex, FillFactor>> /\ DesiredCreate.table.indexes[1].options = <<PadIndex>> /\ CurrentIndexesNamed("i")[1].unique /\ ddls = <<>>

\* ---- Properties of the output ----

\* C28: in every dialect every statement of the output of a diff that has not failed is a
\* non-empty SQL text, the index drops of the table diff, of a standalone CREATE INDEX or ADD INDEX
\* and of the cleanup included.
NoEmptyStatement == err = NoError => \A k \in 1..Len(ddls) : ddls[k] # ""

\* ---- Properties of ADD PRIMARY KEY ----

\* The statements of the list before the i-th create the table of the i-th.
CreatedBefore(stmts, i) == \E j \in 1..(i - 1) : stmts[j].kind = "CreateTable" /\ stmts[j].table.name = stmts[i].tableName

\* In the current list: the named column of the table is a primary-key column when the diff starts,
\* and a statement whose table was not created before it, the statements before it being accepted, is the missing-table error.
AddPrimaryKeyConverted == \A i \in 1..Len(currentDDLs) : currentDDLs[i].kind = "AddPrimaryKey" /\ convertDDLsToTables(SubSeq(currentDDLs, 1, i - 1)).err = NoError =>
    IF CreatedBefore(currentDDLs, i) THEN (pc = "walk" /\ desiredDDLs = <<>> /\ err = NoError => \A k \in 1..Len(currentTables[FirstCurrentTableNamed(currentDDLs[i].tableName)].columns) : currentTables[FirstCurrentTableNamed(currentDDLs[i].tableName)].columns[k].name = currentDDLs[i].index.columns[1].column => currentTables[FirstCurrentTableNamed(currentDDLs[i].tableName)].columns[k].keyOption = ColumnKeyPrimary)
    ELSE err = "ADD PRIMARY KEY is performed before CREATE TABLE: " \o currentDDLs[i].statement

\* In the desired list: the statement is not an unknown statement to the walk, and a desired list
\* that is the current list yields no statement.
AddPrimaryKeyWalked == /\ \A i \in 1..Len(desiredDDLs) : desiredDDLs[i].kind = "AddPrimaryKey" => err # UnknownStatement
                       /\ pc = "done" /\ desiredDDLs = currentDDLs /\ convertDDLsToTables(currentDDLs).err = NoError /\ (\E i \in 1..Len(desiredDDLs) : desiredDDLs[i].kind = "AddPrimaryKey") => err = NoError /\ ddls = <<>>

\* C29: ADD PRIMARY KEY in the current list makes the named column of its table a primary-key
\* column (the missing-table error when the table was not created before it), and in the desired
\* list it is processed without the unknown-statement error, so that a desired list equal to a
\* current list that holds an ADD PRIMARY KEY yields an empty diff.
AddPrimaryKeyAccepted == AddPrimaryKeyConverted /\ AddPrimaryKeyWalked

\* ---- Properties of the statements of one column ----

\* The CHANGE COLUMN statements of the column that render the definition, with auto_increment or without.
ChangeColumnRendering(name, column) == ChangeColumnTexts(name, [column EXCEPT !.autoIncrement = TRUE]) \cup ChangeColumnTexts(name, [column EXCEPT !.autoIncrement = FALSE])

\* The places in the output of the CHANGE COLUMN statements of the i-th desired column.
ChangesOfColumn(i) == {k \in 1..Len(ddls) : ddls[k] \in ChangeColumnRendering(DesiredColumns[i].name, DesiredColumns[i]) \cup ChangeColumnRendering(DesiredColumns[i].name, CounterpartOf(i))}

LastOf(places) == CHOOSE k \in places : \A l \in places : l <= k

\* C30: under MySQL, among the statements emitted for a CREATE TABLE of an existing table, the
\* last CHANGE COLUMN of a column that both tables have renders the data type, the nullability
\* and the default of the desired column, also when the column loses auto_increment and changes
\* its type in the same diff.
LastChangeColumnRendersDesired == pc = "merge" /\ mode = GeneratorModeMysql => \A i \in 1..Len(DesiredColumns) : ~IsNewColumn(i) /\ ChangesOfColumn(i) # {} => ddls[LastOf(ChangesOfColumn(i))] \in ChangeColumnRendering(DesiredColumns[i].name, DesiredColumns[i])

====
